---- MODULE Spec2Model ----
(***************************************************************************)
(* Multi-model consensus engine of the LeadSpark backend: the request      *)
(* lifecycle (submit, queue, process, finalize, cancel), the concurrent    *)
(* fan-out over the model agents, the consensus strategies and the         *)
(* notifications, as implemented in packages/backend.                      *)
(*                                                                         *)
(* Numbers: confidences, weights and expertise coefficients are integers   *)
(* in hundredths (0.7 is 70); a quotient is kept as the pair <<num, den>>. *)
(* A text is the sequence of its whitespace-separated words.  A Python     *)
(* dict is a record; a key whose value is None is absent from the record.  *)
(***************************************************************************)
EXTENDS Integers, Sequences, FiniteSets, TLC

(***************************************************************************)
(* Program constants                                                       *)
(***************************************************************************)
\* default_config['models']
DefaultModels == <<"gpt-4", "claude-3-sonnet", "grok-2", "gemini-2.5-flash">>

\* default_config['voting_weights'], in hundredths
DefaultVotingWeights ==
    [m \in {"gpt-4", "claude-3-sonnet", "grok-2", "gemini-2.5-flash"} |->
        IF m \in {"gpt-4", "claude-3-sonnet"} THEN 30 ELSE 20]

\* weights.get(model, 0.25)
DefaultWeight == 25

\* structured_response.get('confidence', 0.7) and the non-JSON fallback
DefaultConfidence == 70

\* similarity_threshold of _group_similar_responses, as used by majority
MajorityThreshold == 70

\* mutant: _unanimous_consensus groups at the default threshold
UnanimousThresholdOfMajority == MajorityThreshold

\* similarity_threshold passed by _unanimous_consensus
UnanimousThreshold == 80

\* consensus_confidence of the unanimous disagreement result
DisagreementConfidence == 30

\* consensus_confidence of the ultimate fallback
DegradedConfidence == 10

\* mutant: a model or task type that is not listed gets the default
\* confidence, 0.7
DefaultExpertiseOfConfidence == DefaultConfidence

\* expertise_scores.get(model, 0.8)
DefaultExpertise == 80

\* config['timeout_seconds'] set by _orchestrate_llm_consensus
AsyncTimeoutSeconds == 150

\* default_config['timeout_seconds']
DefaultTimeoutSeconds == 45

\* the members of ConsensusStrategy
StrategyNames == {"majority", "weighted", "unanimous", "best_of_n", "hierarchical"}

\* fallback_models of _fallback_single_model
FallbackModels == <<"gpt-4", "claude-3-sonnet", "gemini-2.5-flash", "grok-beta">>

\* the keys _setup_model_agents can put in _model_agents
AgentNames == {"gpt-4", "claude-3-sonnet", "grok-2", "gemini-2.5-flash"}

\* the statuses of a persisted request
NonTerminal == {"pending", "queued", "processing"}
Terminal == {"completed", "failed", "cancelled"}

\* a column of the record that holds SQL NULL
Null == [null |-> TRUE]

(***************************************************************************)
(* Small helpers                                                           *)
(***************************************************************************)
Max(a, b) == IF a >= b THEN a ELSE b
Min(a, b) == IF a <= b THEN a ELSE b

\* dict.get(key, default)
Get(d, k, default) == IF k \in DOMAIN d THEN d[k] ELSE default

\* {**a, **b}
Merge(a, b) == [k \in DOMAIN a \cup DOMAIN b |-> IF k \in DOMAIN b THEN b[k] ELSE a[k]]

Range(s) == {s[i] : i \in DOMAIN s}

\* [f(x) for x in s]
MapSeq(s, F(_)) == [i \in DOMAIN s |-> F(s[i])]

\* [x for x in s if P(x)]
FilterSeq(s, P(_)) == SelectSeq(s, P)

RECURSIVE SumSeq(_)
SumSeq(s) == IF s = <<>> THEN 0 ELSE Head(s) + SumSeq(Tail(s))

\* mutant: the last element that has the largest key
LastMaxIndex(keys) ==
    CHOOSE i \in DOMAIN keys :
        /\ \A j \in DOMAIN keys : keys[j] <= keys[i]
        /\ \A j \in DOMAIN keys : j > i => keys[j] < keys[i]

\* index of the first maximum of a non-empty sequence of integers: Python's
\* max(seq, key=...) returns the first element that has the largest key
FirstMaxIndex(keys) ==
    CHOOSE i \in DOMAIN keys :
        /\ \A j \in DOMAIN keys : keys[j] <= keys[i]
        /\ \A j \in 1..(i - 1) : keys[j] < keys[i]

(***************************************************************************)
(* Texts                                                                   *)
(***************************************************************************)
\* str.lower() on one word of the vocabulary the replies use
LowerWord(w) ==
    CASE w = "Schedule" -> "schedule"
      [] w = "Demo" -> "demo"
      [] w = "Send" -> "send"
      [] OTHER -> w

\* set(text.lower().split())
WordSet(text) == {LowerWord(text[i]) : i \in DOMAIN text}

\* len(text): the characters of the words and one space between two words
RECURSIVE CharLen(_)
CharLen(text) ==
    IF text = <<>> THEN 0
    ELSE Len(Head(text)) + (IF Len(text) > 1 THEN 1 ELSE 0) + CharLen(Tail(text))

(***************************************************************************)
(* Model replies and _get_model_response                                   *)
(***************************************************************************)
\* What an agent's run() can hand back: the content string (raw, as words),
\* what json.loads makes of it (fmt, and for a JSON object its keys) and how
\* long the call took in seconds.
EnvelopeReply ==
    [fmt |-> "object",
     raw |-> <<"{envelope}">>,
     fields |-> [response |-> <<"Schedule", "a", "Demo", "call">>,
                 confidence |-> 90,
                 reasoning |-> "the lead asked for a demo twice",
                 alternatives |-> <<"offer a trial">>],
     latency |-> 3]

ProseReply ==
    [fmt |-> "notjson",
     raw |-> <<"Send", "pricing", "details">>,
     fields |-> <<>>,
     latency |-> 1]

ArrayReply ==
    [fmt |-> "array",
     raw |-> <<"[1,", "2]">>,
     fields |-> <<>>,
     latency |-> 1]

\* the replies the agents give in the lifecycle specification
Replies == {EnvelopeReply, ProseReply, ArrayReply}

\* json.loads(response.content): JSONDecodeError for text that is not JSON
JsonDecodes(reply) == reply.fmt # "notjson"

\* the value .get() is called on: only a dict has .get
HasGet(reply) == reply.fmt \in {"object", "notjson"}

\* _get_model_response: the dict it returns, or raised = TRUE and the
\* exception when it re-raises
GetModelResponse(model_name, reply) ==
    LET structured_response ==
            IF JsonDecodes(reply) THEN reply.fields
            ELSE [response |-> reply.raw,
                  confidence |-> DefaultConfidence,
                  reasoning |-> "Response not in structured format",
                  alternatives |-> <<>>]
    IN  IF ~HasGet(reply) THEN [raised |-> TRUE, exc |-> "AttributeError"]
        ELSE [raised |-> FALSE,
              value |-> [model |-> model_name,
                         response |-> Get(structured_response, "response", reply.raw),
                         confidence |-> Get(structured_response, "confidence", DefaultConfidence),
                         reasoning |-> Get(structured_response, "reasoning", ""),
                         alternatives |-> Get(structured_response, "alternatives", <<>>),
                         response_time |-> reply.latency,
                         raw_response |-> reply.raw]]

(***************************************************************************)
(* Consensus strategies                                                    *)
(***************************************************************************)
ModelOf(r) == r.model
ConfidenceOf(r) == r.confidence

\* Jaccard similarity of two texts >= threshold (in hundredths); 0 when the
\* union is empty
Similar(text1, text2, threshold) ==
    LET a == WordSet(text1)
        b == WordSet(text2)
        intersection == Cardinality(a \cap b)
        union == Cardinality(a \cup b)
    IN  IF union > 0 THEN 100 * intersection >= threshold * union
        ELSE 0 >= threshold

\* the first group whose first member is similar to the response, or 0
FirstSimilarGroup(groups, response, threshold) ==
    LET hits == {g \in DOMAIN groups :
                    Similar(response.response, groups[g][1].response, threshold)}
    IN  IF hits = {} THEN 0 ELSE CHOOSE g \in hits : \A h \in hits : g <= h

RECURSIVE GroupFrom(_, _, _, _)
GroupFrom(responses, i, groups, threshold) ==
    IF i > Len(responses) THEN groups
    ELSE LET g == FirstSimilarGroup(groups, responses[i], threshold)
         IN  GroupFrom(responses, i + 1,
                       IF g = 0 THEN Append(groups, <<responses[i]>>)
                       ELSE [groups EXCEPT ![g] = Append(@, responses[i])],
                       threshold)

\* _group_similar_responses
group_similar_responses(responses, similarity_threshold) ==
    GroupFrom(responses, 1, <<>>, similarity_threshold)

\* statistics.mean of the confidences, as <<sum, count>>
MeanConfidence(group) == <<SumSeq(MapSeq(group, ConfidenceOf)), Len(group)>>

\* mutant: the list is left in input order
SortByWeightedScoreUnsorted(s) == s

\* list.sort(key=weighted_score, reverse=True): stable, descending
RECURSIVE SortByWeightedScore(_)
SortByWeightedScore(s) ==
    IF s = <<>> THEN <<>>
    ELSE LET rest == SortByWeightedScore(SubSeq(s, 1, Len(s) - 1))
             x == s[Len(s)]
             before == SelectSeq(rest, LAMBDA y : y.weighted_score >= x.weighted_score)
             after == SelectSeq(rest, LAMBDA y : y.weighted_score < x.weighted_score)
         IN  before \o <<x>> \o after

\* _weighted_consensus
weighted_consensus(responses, config) ==
    LET weights == Get(config, "voting_weights", DefaultVotingWeights)
        WeightOf(r) == Get(weights, r.model, DefaultWeight)
        Scored(r) == Merge(r, [weighted_score |-> r.confidence * WeightOf(r)])
        weighted_responses == SortByWeightedScore(MapSeq(responses, Scored))
        top_response == weighted_responses[1]
        total_weight == SumSeq(MapSeq(responses, WeightOf))
        Product(r) == r.confidence * WeightOf(r)
        weighted_confidence ==
            IF total_weight > 0 THEN <<SumSeq(MapSeq(responses, Product)), total_weight>>
            ELSE <<50, 1>>
        Score(r) == <<r.model, r.weighted_score>>
    IN  [consensus_response |-> top_response.response,
         consensus_confidence |-> weighted_confidence,
         strategy |-> "weighted",
         participating_models |-> MapSeq(responses, ModelOf),
         total_responses |-> Len(responses),
         top_model |-> top_response.model,
         metadata |-> [weighted_scores |-> MapSeq(weighted_responses, Score),
                       all_responses |-> responses]]

\* mutant: the metadata keeps the responses of the winning group only
majority_consensus_keeps_winners(responses) ==
    LET response_groups == group_similar_responses(responses, MajorityThreshold)
        majority_group == response_groups[FirstMaxIndex(MapSeq(response_groups, Len))]
        best_response == majority_group[FirstMaxIndex(MapSeq(majority_group, ConfidenceOf))]
    IN  [consensus_response |-> best_response.response,
         consensus_confidence |-> MeanConfidence(majority_group),
         strategy |-> "majority",
         participating_models |-> MapSeq(majority_group, ModelOf),
         total_responses |-> Len(responses),
         consensus_size |-> Len(majority_group),
         metadata |-> [all_responses |-> majority_group,
                       response_groups |-> Len(response_groups)]]

\* _majority_consensus
majority_consensus(responses) ==
    LET response_groups == group_similar_responses(responses, MajorityThreshold)
        majority_group == response_groups[FirstMaxIndex(MapSeq(response_groups, Len))]
        best_response == majority_group[FirstMaxIndex(MapSeq(majority_group, ConfidenceOf))]
    IN  [consensus_response |-> best_response.response,
         consensus_confidence |-> MeanConfidence(majority_group),
         strategy |-> "majority",
         participating_models |-> MapSeq(majority_group, ModelOf),
         total_responses |-> Len(responses),
         consensus_size |-> Len(majority_group),
         metadata |-> [all_responses |-> responses,
                       response_groups |-> Len(response_groups)]]

\* mutant: the confidence alone
QualityScoreConfidenceOnly(r) == r.confidence * 10

\* quality score of _best_of_n_consensus, in thousandths
QualityScore(r) ==
    r.confidence * 10
    + Min(100, CharLen(r.response))
    + (IF Len(Get(r, "reasoning", "")) > 20 THEN 50 ELSE 0)
    + (IF Len(Get(r, "alternatives", <<>>)) > 0 THEN 30 ELSE 0)
    - (IF Get(r, "response_time", 10) < 2 THEN 20 ELSE 0)

\* _best_of_n_consensus
best_of_n_consensus(responses) ==
    LET Scored(r) == Merge(r, [quality_score |-> QualityScore(r)])
        QualityOf(r) == r.quality_score
        scored_responses == MapSeq(responses, Scored)
        best_response == scored_responses[FirstMaxIndex(MapSeq(scored_responses, QualityOf))]
        Score(r) == <<r.model, r.quality_score>>
    IN  [consensus_response |-> best_response.response,
         consensus_confidence |-> <<best_response.confidence, 1>>,
         strategy |-> "best_of_n",
         participating_models |-> MapSeq(responses, ModelOf),
         total_responses |-> Len(responses),
         winning_model |-> best_response.model,
         metadata |-> [quality_scores |-> MapSeq(scored_responses, Score),
                       all_responses |-> responses]]

\* the fixed text of the unanimous disagreement result
DisagreementMessage ==
    <<"Multiple", "models", "disagree", "on", "this", "response.",
      "Human", "review", "recommended.">>

\* _unanimous_consensus
unanimous_consensus(responses) ==
    LET response_groups == group_similar_responses(responses, UnanimousThreshold)
        all_responses == response_groups[1]
        best_response == all_responses[FirstMaxIndex(MapSeq(all_responses, ConfidenceOf))]
    IN  IF Len(response_groups) = 1
        THEN [consensus_response |-> best_response.response,
              consensus_confidence |-> MeanConfidence(all_responses),
              strategy |-> "unanimous",
              participating_models |-> MapSeq(all_responses, ModelOf),
              total_responses |-> Len(responses),
              unanimous |-> TRUE,
              metadata |-> [all_responses |-> responses]]
        ELSE [consensus_response |-> DisagreementMessage,
              consensus_confidence |-> <<DisagreementConfidence, 1>>,
              strategy |-> "unanimous",
              participating_models |-> MapSeq(responses, ModelOf),
              total_responses |-> Len(responses),
              unanimous |-> FALSE,
              metadata |-> [disagreement_groups |-> Len(response_groups),
                            all_responses |-> responses,
                            requires_review |-> TRUE]]

\* the default model_expertise table of _hierarchical_consensus, in hundredths
DefaultModelExpertise ==
    [conversation |-> ("gpt-4" :> 90 @@ "claude-3-sonnet" :> 95 @@ "grok-beta" :> 85
                       @@ "gemini-2.5-flash" :> 85),
     qualification |-> ("gpt-4" :> 95 @@ "claude-3-sonnet" :> 85 @@ "grok-beta" :> 90
                        @@ "gemini-2.5-flash" :> 90),
     analysis |-> ("gpt-4" :> 90 @@ "claude-3-sonnet" :> 90 @@ "grok-beta" :> 95
                   @@ "gemini-2.5-flash" :> 95),
     objection_handling |-> ("gpt-4" :> 85 @@ "claude-3-sonnet" :> 90 @@ "grok-beta" :> 80
                             @@ "gemini-2.5-flash" :> 85),
     booking |-> ("gpt-4" :> 90 @@ "claude-3-sonnet" :> 85 @@ "grok-beta" :> 85
                  @@ "gemini-2.5-flash" :> 85)]

\* _hierarchical_consensus
hierarchical_consensus(responses, task_type, config) ==
    LET model_expertise == Get(config, "model_expertise", DefaultModelExpertise)
        expertise_scores == Get(model_expertise, task_type, <<>>)
        ExpertiseOf(r) == Get(expertise_scores, r.model, DefaultExpertise)
        Scored(r) == Merge(r, [hierarchical_score |-> r.confidence * ExpertiseOf(r),
                               expertise_level |-> ExpertiseOf(r)])
        HierarchicalOf(r) == r.hierarchical_score
        hierarchical_scores == MapSeq(responses, Scored)
        best_response ==
            hierarchical_scores[FirstMaxIndex(MapSeq(hierarchical_scores, HierarchicalOf))]
        Score(r) == <<r.model, r.hierarchical_score>>
    IN  [consensus_response |-> best_response.response,
         consensus_confidence |-> <<best_response.confidence, 1>>,
         strategy |-> "hierarchical",
         participating_models |-> MapSeq(responses, ModelOf),
         total_responses |-> Len(responses),
         selected_model |-> best_response.model,
         task_type |-> task_type,
         metadata |-> [hierarchical_scores |-> MapSeq(hierarchical_scores, Score),
                       expertise_levels |-> expertise_scores,
                       all_responses |-> responses]]

\* _apply_consensus_strategy, for a non-empty list of responses
apply_consensus_strategy(model_responses, strategy, task_type, config) ==
    CASE strategy = "majority" -> majority_consensus(model_responses)
      [] strategy = "weighted" -> weighted_consensus(model_responses, config)
      [] strategy = "unanimous" -> unanimous_consensus(model_responses)
      [] strategy = "best_of_n" -> best_of_n_consensus(model_responses)
      [] strategy = "hierarchical" ->
            hierarchical_consensus(model_responses, task_type, config)
      [] OTHER -> weighted_consensus(model_responses, config)

\* mutant: the weighted strategy sorts the caller's list in place
responses_after_sorted_in_place(model_responses, strategy, config) ==
    LET order == weighted_consensus(model_responses, config).metadata.weighted_scores
        sorted == [i \in DOMAIN model_responses |->
                      CHOOSE r \in Range(model_responses) : r.model = order[i][1]]
    IN  IF strategy = "weighted" THEN sorted ELSE model_responses

\* the caller's list after _apply_consensus_strategy returns: the strategies
\* put new dicts ({**response, ...}) in lists of their own
\* (weighted_responses, scored_responses, hierarchical_scores, the groups)
\* and sort or extend only those
responses_after(model_responses, strategy, config) == model_responses

\* the text of the ultimate fallback of _fallback_single_model
DegradedMessage ==
    <<"I'm", "experiencing", "technical", "difficulties", "with", "all", "AI",
      "models.", "Please", "try", "again", "or", "contact", "support.">>

\* what _fallback_single_model returns when a fallback model answered
FallbackResult(fallback_model, response_data) ==
    [consensus_response |-> response_data.response,
     consensus_confidence |-> <<response_data.confidence * 80, 100>>,
     strategy |-> "fallback_single",
     participating_models |-> <<fallback_model>>,
     total_responses |-> 1,
     fallback_reason |-> "consensus_failed",
     fallback_model |-> fallback_model,
     metadata |-> [all_responses |-> <<response_data>>]]

\* the ultimate fallback of _fallback_single_model
DegradedResult ==
    [consensus_response |-> DegradedMessage,
     consensus_confidence |-> <<DegradedConfidence, 1>>,
     strategy |-> "error_fallback",
     participating_models |-> <<>>,
     total_responses |-> 0,
     fallback_reason |-> "all_models_failed",
     metadata |-> [error |-> "All models failed to respond"]]

(***************************************************************************)
(* State                                                                   *)
(***************************************************************************)
VARIABLES
    agents,         \* keys of LLMConsensusService._model_agents
    req,            \* the ConsensusRequest handed to submit
    status,         \* consensus_requests.status of the request ("none": no row)
    result,         \* consensus_requests.result (Null until stored)
    error,          \* consensus_requests.error ("" is NULL)
    submitPc,       \* position of submit_consensus_request
    ack,            \* the ConsensusResponse submit returned
    pc,             \* position of the background task of the request
    calls,          \* the gathered _get_model_response tasks, per model
    model_responses,\* what _get_all_model_responses returned
    consensus,      \* what get_consensus_response returned
    fbIndex,        \* position in fallback_models
    fbTried,        \* the models _fallback_single_model has called, in order
    final,          \* the ConsensusResult handed to _finalize_consensus_result
    notifications,  \* the send_realtime_notification calls made, in order
    callbacks,      \* number of callback POSTs attempted
    callback_outcome, \* how the callback POST ended, "" before it
    cancelPc,       \* position of cancel_consensus_request
    cancelCaller,   \* current_user.id of the last cancel call ("": none)
    cancelResp,     \* HTTP status of the last finished cancel call (0: none)
    lookup,         \* what the last status lookup answered (Null: none yet)
    probe,          \* the last call of a helper or strategy on its own: the
                    \* function, its arguments and what it returned (Null: none)
    fanout_method,  \* consensus_service._get_all_model_responses of each
                    \* LLMConsensusService instance: what the attribute is bound to
    tasks,          \* the _get_consensus_with_progress call of each of two
                    \* concurrent requests: position and closure variables
    emitted,        \* what those calls sent and returned: which call, whose id
    active_connections, \* WebSocketManager.active_connections: user_id -> list
    connection_lists,   \* the list objects created for it, by identity
    endpoint,       \* position of websocket_endpoint, per websocket
    sending         \* the send_to_user calls: position and local variables

recordVars == <<status, result, error>>
submitVars == <<req, submitPc, ack>>
fanoutVars == <<calls, model_responses, consensus, fbIndex, fbTried, final>>
sinkVars == <<notifications, callbacks, callback_outcome>>
cancelVars == <<cancelPc, cancelCaller, cancelResp>>
socketVars == <<active_connections, connection_lists, endpoint, sending>>
isoVars == <<fanout_method, tasks, emitted, socketVars>>
vars ==
    <<agents, recordVars, submitVars, pc, fanoutVars, sinkVars, cancelVars, lookup, probe,
      isoVars>>

(***************************************************************************)
(* Inputs                                                                  *)
(***************************************************************************)
\* user_id = None
NoUser == "None"

\* the requester of the request, and another authenticated user
Owner == "user-1"
Stranger == "user-2"

\* the strategy names a submission may carry: the five known ones and one
\* that ConsensusStrategy() does not know
SubmittedStrategies == StrategyNames \cup {"ranked"}

Priorities == {"urgent", "high", "normal"}

TaskTypes == {"qualification"}

\* which agents got an API key when the service was constructed
AgentConfigs == {AgentNames, {"gpt-4", "grok-2"}, {"grok-2"}, {}}

\* a task of the gather: not started, running, raised, or returned a dict
CallIdle == [st |-> "idle"]
CallPending == [st |-> "pending"]
CallRaised(exc) == [st |-> "raised", exc |-> exc]
CallOk(value) == [st |-> "ok", value |-> value]

NoCalls == [m \in AgentNames |-> CallIdle]

HasUser == req.user_id # NoUser

\* two requests that are processed at the same time
RequestIds == {"A", "B"}

\* LLMConsensusService._get_all_model_responses as the class defines it
OriginalMethod == [fn |-> "_get_all_model_responses"]

\* a _get_consensus_with_progress call that has not begun
TaskNotStarted == [pc |-> "start"]

(***************************************************************************)
(* SupabaseService                                                         *)
(***************************************************************************)
\* update_consensus_request_status(request_id, new_status, error, result):
\* an unconditional UPDATE ... WHERE id = request_id; error and result are
\* written only when truthy (new_error = "" and new_result = Null are not)
update_consensus_request_status(new_status, new_error, new_result) ==
    /\ status' = new_status
    /\ error' = IF new_error # "" THEN new_error ELSE error
    /\ result' = IF new_result # Null THEN new_result ELSE result

\* store_consensus_result(request_id, result_data)
store_consensus_result(result_data) ==
    /\ result' = result_data
    /\ status' = Get(result_data, "status", "completed")
    /\ UNCHANGED error

\* how the .execute() of the count query can end: with a count, with an
\* exception, with a result whose count is None
ExecuteOutcomes == {"ok", "raises", "no_count"}

\* count_pending_consensus_requests(priority) over the rows of
\* consensus_requests: select('*', count='exact').in_('status', ['pending',
\* 'queued', 'processing']), the priority argument is not part of the
\* query; 0 when the query raises or result.count is None
count_pending_rows(rows, priority, execute) ==
    IF execute = "raises" THEN 0
    ELSE IF execute = "no_count" THEN 0
    ELSE Len(SelectSeq(rows, LAMBDA row : row.status \in NonTerminal))

\* count_pending_consensus_requests(priority) when the request of the
\* lifecycle is the only one: its row, if it has one, is the table
count_pending_consensus_requests(priority) ==
    count_pending_rows(IF status = "none" THEN <<>>
                       ELSE <<[priority |-> req.priority, status |-> status]>>,
                       priority, "ok")

(***************************************************************************)
(* NotificationService                                                     *)
(***************************************************************************)
\* mutant: the handler and the processor notify through the instance that
\* main.py gave its WebSocketManager
websocket_manager_of_main == "WebSocketManager"

\* NotificationService.websocket_manager of the instances the handler and
\* the processor construct for themselves: None, as __init__ leaves it
\* (main.py calls set_websocket_manager on an instance of its own)
websocket_manager == "None"

\* the users whose WebSocket connection never completes a send_text
StalledObservers == {Owner}

\* send_realtime_notification returns (True, or False after an exception it
\* caught): without a manager or a user_id it only logs the notification;
\* with both it awaits send_to_user, whose send_text has no timeout
SendReturns ==
    \/ websocket_manager = "None"
    \/ ~HasUser
    \/ req.user_id \notin StalledObservers

\* send_realtime_notification(notification_data): never raises
Notify(n) ==
    /\ SendReturns
    /\ notifications' = Append(notifications, n)

\* the handler's and processor's "if request.user_id:" sends
NotifyUser(n) == IF HasUser THEN Notify(n) ELSE UNCHANGED notifications

(***************************************************************************)
(* Init                                                                    *)
(***************************************************************************)
NoRequest == [none |-> TRUE]

\* the websockets that connect, all for one user_id, and the callers of
\* send_to_user besides connect: send_realtime_notification of the wired
\* NotificationService and the test route of main.py
Sockets == {"ws1", "ws2"}
Senders == {"notify", "test"}
SendCalls == Sockets \cup Senders
SocketUser == Owner

\* a send_to_user call that has not been made
NotSending ==
    [pc |-> "idle", list |-> 0, i |-> 0, connection |-> "", disconnected |-> <<>>, exc |-> ""]

Init ==
    /\ agents \in AgentConfigs
    /\ req = NoRequest
    /\ status = "none"
    /\ result = Null
    /\ error = ""
    /\ submitPc = "idle"
    /\ ack = Null
    /\ pc = "unscheduled"
    /\ calls = NoCalls
    /\ model_responses = <<>>
    /\ consensus = Null
    /\ fbIndex = 1
    /\ fbTried = <<>>
    /\ final = Null
    /\ notifications = <<>>
    /\ callbacks = 0
    /\ callback_outcome = ""
    /\ cancelPc = "idle"
    /\ cancelCaller = ""
    /\ cancelResp = 0
    /\ lookup = Null
    /\ probe = Null
    /\ fanout_method = [s \in RequestIds |-> OriginalMethod]
    /\ tasks = [r \in RequestIds |-> TaskNotStarted]
    /\ emitted = {}
    /\ active_connections = <<>>
    /\ connection_lists = <<>>
    /\ endpoint = [ws \in Sockets |-> "new"]
    /\ sending = [t \in SendCalls |-> NotSending]

(***************************************************************************)
(* AsyncConsensusHandler.submit_consensus_request                          *)
(***************************************************************************)
\* mutant: a priority outside the table gets the first tier
get_estimated_completion_time_first_tier(priority) ==
    CASE priority = "urgent" -> 1
      [] priority = "high" -> 2
      [] priority = "normal" -> 3
      [] OTHER -> 1

\* _get_estimated_completion_time
get_estimated_completion_time(priority) ==
    CASE priority = "urgent" -> 1
      [] priority = "high" -> 2
      [] priority = "normal" -> 3
      [] OTHER -> 3

\* mutant: the count is returned as it is
get_queue_position_unclamped(rows, priority, execute) ==
    count_pending_rows(rows, priority, execute)

\* _get_queue_position over the rows of consensus_requests: max(1, count);
\* count_pending_consensus_requests catches what the query raises, so the
\* except branch (return 1) is not taken
get_queue_position_over(rows, priority, execute) ==
    Max(1, count_pending_rows(rows, priority, execute))

\* _get_queue_position
get_queue_position(priority) == Max(1, count_pending_consensus_requests(priority))

\* estimated_completion of submit_consensus_request, in minutes:
\* datetime.utcnow() + timedelta(minutes=estimated_minutes)
estimated_completion(now, priority) == now + get_estimated_completion_time(priority)

\* the row is created with status pending and the background task is added
submit_consensus_request ==
    /\ submitPc = "idle"
    /\ \E strategy \in SubmittedStrategies, priority \in Priorities,
          user \in {Owner, NoUser}, callback \in BOOLEAN, task_type \in TaskTypes :
            req' = [strategy |-> strategy, priority |-> priority, user_id |-> user,
                    has_callback |-> callback, task_type |-> task_type, config |-> <<>>]
    /\ status' = "pending"
    /\ submitPc' = "created"
    /\ pc' = "scheduled"
    /\ UNCHANGED <<agents, lookup, probe, isoVars,
                   result, error, ack, fanoutVars, sinkVars, cancelVars>>

\* the queue position is read and the acknowledgment returned
submit_return ==
    /\ submitPc = "created"
    /\ ack' = [status |-> "pending",
               estimated_minutes |-> get_estimated_completion_time(req.priority),
               queue_position |-> get_queue_position(req.priority)]
    /\ submitPc' = "returned"
    /\ UNCHANGED <<agents, lookup, probe, isoVars,
                   recordVars, req, pc, fanoutVars, sinkVars, cancelVars>>

\* mutant: the background task is added before the row is created
submit_create_fails_after_add_task ==
    /\ submitPc = "idle"
    /\ \E strategy \in SubmittedStrategies, priority \in Priorities,
          user \in {Owner, NoUser}, callback \in BOOLEAN, task_type \in TaskTypes :
            req' = [strategy |-> strategy, priority |-> priority, user_id |-> user,
                    has_callback |-> callback, task_type |-> task_type, config |-> <<>>]
    /\ submitPc' = "raised"
    /\ pc' = "scheduled"
    /\ UNCHANGED <<agents, lookup, probe, isoVars,
                   recordVars, ack, fanoutVars, sinkVars, cancelVars>>

\* submit_consensus_request when the insert of create_consensus_request
\* raises: create_consensus_request logs and re-raises, the statements after
\* the call (add_task, the queue position, the acknowledgment) are skipped
\* and the except branch raises HTTPException(500)
submit_create_fails ==
    /\ submitPc = "idle"
    /\ \E strategy \in SubmittedStrategies, priority \in Priorities,
          user \in {Owner, NoUser}, callback \in BOOLEAN, task_type \in TaskTypes :
            req' = [strategy |-> strategy, priority |-> priority, user_id |-> user,
                    has_callback |-> callback, task_type |-> task_type, config |-> <<>>]
    /\ submitPc' = "raised"
    /\ UNCHANGED <<agents, lookup, probe, isoVars,
                   recordVars, ack, pc, fanoutVars, sinkVars, cancelVars>>

\* mutant: the task added by submit is run at once, inside the submit call
BackgroundRunsInline == submitPc \in {"created", "returned"}

\* Starlette runs the tasks of BackgroundTasks once the response of the
\* route that added them has been sent
BackgroundMayRun == submitPc = "returned"

(***************************************************************************)
(* AsyncConsensusHandler._queue_async_processing                           *)
(***************************************************************************)
\* mutant: the task starts without writing the queued status
queue_set_queued_unwritten ==
    /\ pc = "scheduled"
    /\ BackgroundMayRun
    /\ pc' = "queue_notify"
    /\ UNCHANGED <<agents, lookup, probe, isoVars,
                   recordVars, submitVars, fanoutVars, sinkVars, cancelVars>>

queue_set_queued ==
    /\ pc = "scheduled"
    /\ BackgroundMayRun
    /\ update_consensus_request_status("queued", "", Null)
    /\ pc' = "queue_notify"
    /\ UNCHANGED <<agents, lookup, probe, isoVars,
                   submitVars, fanoutVars, sinkVars, cancelVars>>

\* mutant: the queued notification is left out
queue_notify_silent ==
    /\ pc = "queue_notify"
    /\ pc' = "trigger"
    /\ UNCHANGED <<agents, lookup, probe, isoVars,
                   recordVars, submitVars, fanoutVars, sinkVars, cancelVars>>

queue_notify ==
    /\ pc = "queue_notify"
    /\ NotifyUser([type |-> "consensus_queued"])
    /\ pc' = "trigger"
    /\ UNCHANGED <<agents, lookup, probe, isoVars,
                   recordVars, submitVars, fanoutVars, callbacks,
                   callback_outcome, cancelVars>>

\* _trigger_async_consensus_workflow: the processor is imported and built and
\* a task is created, at once for urgent, behind a sleep otherwise; when any
\* of this raises, _queue_async_processing goes to its except branch
trigger_async_consensus_workflow ==
    /\ pc = "trigger"
    /\ \E raises \in BOOLEAN :
        pc' = IF raises THEN "queue_except"
              ELSE IF req.priority = "urgent" THEN "process" ELSE "sleeping"
    /\ UNCHANGED <<agents, lookup, probe, isoVars,
                   recordVars, submitVars, fanoutVars, sinkVars, cancelVars>>

\* the except branch of _queue_async_processing
queue_except ==
    /\ pc = "queue_except"
    /\ update_consensus_request_status("failed", "workflow trigger failed", Null)
    /\ NotifyUser([type |-> "consensus_failed"])
    /\ pc' = "done"
    /\ UNCHANGED <<agents, lookup, probe, isoVars, submitVars, fanoutVars, callbacks,
                   callback_outcome, cancelVars>>

\* _delayed_processing: asyncio.sleep(delay) is over
delayed_processing ==
    /\ pc = "sleeping"
    /\ pc' = "process"
    /\ UNCHANGED <<agents, lookup, probe, isoVars,
                   recordVars, submitVars, fanoutVars, sinkVars, cancelVars>>

(***************************************************************************)
(* AsyncConsensusProcessor.process_consensus_request                       *)
(***************************************************************************)
process_set_processing ==
    /\ pc = "process"
    /\ update_consensus_request_status("processing", "", Null)
    /\ pc' = "process_notify"
    /\ UNCHANGED <<agents, lookup, probe, isoVars,
                   submitVars, fanoutVars, sinkVars, cancelVars>>

process_notify_started ==
    /\ pc = "process_notify"
    /\ NotifyUser([type |-> "consensus_started"])
    /\ pc' = "orchestrate"
    /\ UNCHANGED <<agents, lookup, probe, isoVars,
                   recordVars, submitVars, fanoutVars, callbacks,
                   callback_outcome, cancelVars>>

\* _orchestrate_llm_consensus up to the call of _get_consensus_with_progress:
\* ConsensusStrategy(request.strategy) raises ValueError for an unknown name,
\* which reaches the except branch of process_consensus_request
orchestrate_llm_consensus ==
    /\ pc = "orchestrate"
    /\ IF req.strategy \in StrategyNames
       THEN /\ NotifyUser([type |-> "consensus_progress", stage |-> "llm_calls"])
            /\ pc' = "fanout_start"
       ELSE /\ pc' = "process_except"
            /\ UNCHANGED notifications
    /\ UNCHANGED <<agents, lookup, probe, isoVars,
                   recordVars, submitVars, fanoutVars, callbacks,
                   callback_outcome, cancelVars>>

\* the config get_consensus_response works with: the defaults, overridden by
\* the request's config and by the timeout _orchestrate_llm_consensus sets
effective_config(config) ==
    Merge([models |-> DefaultModels,
           voting_weights |-> DefaultVotingWeights,
           timeout_seconds |-> DefaultTimeoutSeconds],
          Merge(config, [timeout_seconds |-> AsyncTimeoutSeconds]))

\* the config of the request of the lifecycle
EffectiveConfig == effective_config(req.config)

\* available_models of _get_all_model_responses
available_models ==
    LET IsAgent(m) == m \in agents
    IN  FilterSeq(EffectiveConfig.models, IsAgent)

\* progress_aware_get_responses sends its first progress update and calls
\* _get_all_model_responses, which gathers one task per available model or
\* returns [] when there is none
fanout_start ==
    /\ pc = "fanout_start"
    /\ NotifyUser([type |-> "consensus_progress", stage |-> "model_responses"])
    /\ IF available_models = <<>>
       THEN /\ model_responses' = <<>>
            /\ pc' = "aggregate"
            /\ UNCHANGED calls
       ELSE /\ calls' = [m \in AgentNames |->
                            IF m \in Range(available_models) THEN CallPending ELSE CallIdle]
            /\ pc' = "fanout"
            /\ UNCHANGED model_responses
    /\ UNCHANGED <<agents, lookup, probe, isoVars,
                   recordVars, submitVars, consensus, fbIndex, fbTried, final,
                   callbacks,
                   callback_outcome, cancelVars>>

\* agent.run() of one gathered task returns a reply, which
\* _get_model_response turns into a dict or an exception
agent_returns ==
    /\ pc = "fanout"
    /\ \E m \in AgentNames, reply \in Replies :
        /\ calls[m] = CallPending
        /\ LET out == GetModelResponse(m, reply)
           IN  calls' = [calls EXCEPT ![m] =
                            IF out.raised THEN CallRaised(out.exc) ELSE CallOk(out.value)]
    /\ UNCHANGED <<agents, lookup, probe, isoVars,
                   recordVars, submitVars, pc, model_responses, consensus,
                   fbIndex, fbTried, final, sinkVars, cancelVars>>

\* agent.run() of one gathered task raises
agent_raises ==
    /\ pc = "fanout"
    /\ \E m \in AgentNames :
        /\ calls[m] = CallPending
        /\ calls' = [calls EXCEPT ![m] = CallRaised("AgentError")]
    /\ UNCHANGED <<agents, lookup, probe, isoVars,
                   recordVars, submitVars, pc, model_responses, consensus,
                   fbIndex, fbTried, final, sinkVars, cancelVars>>

\* mutant: a gather without return_exceptions, where one exception loses
\* every result
ValidResponsesFailFast ==
    LET ValueOf(m) == calls[m].value
    IN  IF \E m \in AgentNames : calls[m].st = "raised" THEN <<>>
        ELSE MapSeq(available_models, ValueOf)

\* valid_responses: the results of the gather that are no exception, in the
\* order of available_models
ValidResponses ==
    LET Succeeded(m) == calls[m].st = "ok"
        ValueOf(m) == calls[m].value
    IN  MapSeq(FilterSeq(available_models, Succeeded), ValueOf)

\* what _get_all_model_responses returns on asyncio.TimeoutError
TimeoutResponses == <<>>

\* every gathered task is done before the timeout
fanout_join ==
    /\ pc = "fanout"
    /\ \A m \in Range(available_models) : calls[m].st \in {"ok", "raised"}
    /\ model_responses' = ValidResponses
    /\ pc' = "aggregate"
    /\ UNCHANGED <<agents, lookup, probe, isoVars,
                   recordVars, submitVars, calls, consensus, fbIndex, fbTried, final,
                   sinkVars, cancelVars>>

\* asyncio.wait_for raises TimeoutError: the deadline passed before the
\* result of the gather was handed over, whether tasks were still running
\* or not; the gather and its tasks are cancelled and their results dropped
fanout_timeout ==
    /\ pc = "fanout"
    /\ model_responses' = TimeoutResponses
    /\ calls' = NoCalls
    /\ pc' = "aggregate"
    /\ UNCHANGED <<agents, lookup, probe, isoVars,
                   recordVars, submitVars, consensus, fbIndex, fbTried, final,
                   sinkVars, cancelVars>>

\* progress_aware_get_responses sends its second progress update and
\* get_consensus_response applies the strategy, or turns to
\* _fallback_single_model when there is no response
aggregate ==
    /\ pc = "aggregate"
    /\ NotifyUser([type |-> "consensus_progress", stage |-> "consensus_calculation"])
    /\ IF model_responses = <<>>
       THEN /\ pc' = "fallback"
            /\ fbIndex' = 1
            /\ fbTried' = <<>>
            /\ UNCHANGED consensus
       ELSE /\ consensus' = apply_consensus_strategy(model_responses, req.strategy,
                                                     req.task_type, EffectiveConfig)
            /\ pc' = "build"
            /\ UNCHANGED <<fbIndex, fbTried>>
    /\ UNCHANGED <<agents, lookup, probe, isoVars,
                   recordVars, submitVars, calls, model_responses, final,
                   callbacks,
                   callback_outcome, cancelVars>>

\* _fallback_single_model, one model of fallback_models: skipped when it is
\* no agent; otherwise _get_model_response is awaited with no timeout and
\* returns, raises (next model) or never comes back
fallback_single_model ==
    /\ pc = "fallback"
    /\ fbIndex <= Len(FallbackModels)
    /\ LET fallback_model == FallbackModels[fbIndex]
       IN  IF fallback_model \notin agents
           THEN /\ fbIndex' = fbIndex + 1
                /\ UNCHANGED <<pc, consensus, fbTried>>
           ELSE /\ fbTried' = Append(fbTried, fallback_model)
                /\ \/ \E reply \in Replies :
                        LET out == GetModelResponse(fallback_model, reply)
                        IN  IF out.raised
                            THEN /\ fbIndex' = fbIndex + 1
                                 /\ UNCHANGED <<pc, consensus>>
                            ELSE /\ consensus' = FallbackResult(fallback_model, out.value)
                                 /\ pc' = "build"
                                 /\ UNCHANGED fbIndex
                   \/ /\ fbIndex' = fbIndex + 1
                      /\ UNCHANGED <<pc, consensus>>
                   \/ /\ pc' = "fallback_hung"
                      /\ UNCHANGED <<fbIndex, consensus>>
    /\ UNCHANGED <<agents, lookup, probe, isoVars,
                   recordVars, submitVars, calls, model_responses, final,
                   sinkVars, cancelVars>>

\* every fallback model was tried: the ultimate fallback
fallback_exhausted ==
    /\ pc = "fallback"
    /\ fbIndex > Len(FallbackModels)
    /\ consensus' = DegradedResult
    /\ pc' = "build"
    /\ UNCHANGED <<agents, lookup, probe, isoVars,
                   recordVars, submitVars, calls, model_responses, fbIndex, fbTried,
                   final, sinkVars, cancelVars>>

\* the ConsensusResult process_consensus_request builds from the dict it got
CompletedResult(consensus_result) ==
    [status |-> "completed",
     consensus_response |-> consensus_result.consensus_response,
     consensus_confidence |-> consensus_result.consensus_confidence,
     participating_models |-> Get(consensus_result, "participating_models", <<>>),
     total_responses |-> Get(consensus_result, "total_responses", 0),
     strategy |-> consensus_result.strategy,
     metadata |-> Get(consensus_result, "metadata", <<>>)]

\* mutant: the except branch drops the text of the exception
ErrorResultWithoutText(message) ==
    [status |-> "failed",
     participating_models |-> <<>>,
     total_responses |-> 0,
     error |-> ""]

\* the ConsensusResult of the except branch of process_consensus_request
ErrorResult(message) ==
    [status |-> "failed",
     participating_models |-> <<>>,
     total_responses |-> 0,
     error |-> message]

build_result ==
    /\ pc = "build"
    /\ final' = CompletedResult(consensus)
    /\ consensus' = Null
    /\ fbIndex' = 1
    /\ pc' = "finalize_store"
    /\ UNCHANGED <<agents, lookup, probe, isoVars,
                   recordVars, submitVars, calls, model_responses, fbTried,
                   sinkVars, cancelVars>>

process_except ==
    /\ pc = "process_except"
    /\ final' = ErrorResult("not a valid ConsensusStrategy")
    /\ pc' = "finalize_store"
    /\ UNCHANGED <<agents, lookup, probe, isoVars,
                   recordVars, submitVars, calls, model_responses, consensus,
                   fbIndex, fbTried, sinkVars, cancelVars>>

(***************************************************************************)
(* AsyncConsensusProcessor._finalize_consensus_result                      *)
(***************************************************************************)
finalize_store ==
    /\ pc = "finalize_store"
    /\ store_consensus_result(final)
    /\ pc' = "finalize_update"
    /\ UNCHANGED <<agents, lookup, probe, isoVars,
                   submitVars, fanoutVars, sinkVars, cancelVars>>

finalize_update ==
    /\ pc = "finalize_update"
    /\ update_consensus_request_status(final.status, "", final)
    /\ pc' = "finalize_callback"
    /\ UNCHANGED <<agents, lookup, probe, isoVars,
                   submitVars, fanoutVars, sinkVars, cancelVars>>

\* store_consensus_result when the update raises (the database cannot be
\* reached, the API answers with an error): the exception is logged and
\* False returned, which _finalize_consensus_result does not look at
finalize_store_fails ==
    /\ pc = "finalize_store"
    /\ pc' = "finalize_update"
    /\ UNCHANGED <<agents, lookup, probe, isoVars,
                   recordVars, submitVars, fanoutVars, sinkVars, cancelVars>>

\* update_consensus_request_status when the update raises: the same
finalize_update_fails ==
    /\ pc = "finalize_update"
    /\ pc' = "finalize_callback"
    /\ UNCHANGED <<agents, lookup, probe, isoVars,
                   recordVars, submitVars, fanoutVars, sinkVars, cancelVars>>

\* how the POST of _send_callback_notification can end: a response of any
\* status code, an exception of the client (connection refused, bad URL),
\* the expiry of its 10 s timeout
CallbackOutcomes == {"delivered", "failed", "timed_out"}

\* mutant: a callback that was not delivered fails the request
finalize_callback_promotes ==
    /\ pc = "finalize_callback"
    /\ IF req.has_callback
       THEN /\ callbacks' = callbacks + 1
            /\ \E outcome \in CallbackOutcomes :
                /\ callback_outcome' = outcome
                /\ IF outcome = "delivered"
                   THEN /\ pc' = "finalize_notify"
                        /\ UNCHANGED recordVars
                   ELSE /\ update_consensus_request_status("failed", "callback failed", Null)
                        /\ pc' = "done"
       ELSE /\ pc' = "finalize_notify"
            /\ UNCHANGED <<recordVars, callbacks, callback_outcome>>
    /\ UNCHANGED <<agents, lookup, probe, isoVars,
                   submitVars, fanoutVars, notifications, cancelVars>>

\* _send_callback_notification, when a callback_url was given: one POST,
\* whose response is logged and whose exception, the timeout included, is
\* caught and logged
finalize_callback ==
    /\ pc = "finalize_callback"
    /\ IF req.has_callback
       THEN /\ callbacks' = callbacks + 1
            /\ callback_outcome' \in CallbackOutcomes
       ELSE UNCHANGED <<callbacks, callback_outcome>>
    /\ pc' = "finalize_notify"
    /\ UNCHANGED <<agents, lookup, probe, isoVars,
                   recordVars, submitVars, fanoutVars, notifications, cancelVars>>

\* _send_realtime_notification: sent whether or not there is a user_id
finalize_notify ==
    /\ pc = "finalize_notify"
    /\ Notify([type |-> IF final.status = "completed" THEN "consensus_completed"
                        ELSE "consensus_failed"])
    /\ pc' = "done"
    /\ UNCHANGED <<agents, lookup, probe, isoVars,
                   recordVars, submitVars, fanoutVars, callbacks,
                   callback_outcome, cancelVars>>

(***************************************************************************)
(* routes.consensus_routes.cancel_consensus_request                        *)
(***************************************************************************)
\* mutant: a cancelled request is taken to be cancellable again
NotCancellableForgetsCancelled == {"completed", "failed"}

\* the statuses cancel refuses
NotCancellable == {"completed", "failed", "cancelled"}

\* the route up to its write: the row is read, the caller compared with the
\* row's user_id (403), the status checked (400)
cancel_check ==
    /\ cancelPc = "idle"
    /\ submitPc = "returned"
    /\ \E caller \in {Owner, Stranger} :
        /\ cancelCaller' = caller
        /\ IF req.user_id # caller
           THEN /\ cancelResp' = 403
                /\ UNCHANGED cancelPc
           ELSE IF status \in NotCancellable
           THEN /\ cancelResp' = 400
                /\ UNCHANGED cancelPc
           ELSE /\ cancelPc' = "checked"
                /\ cancelResp' = 0
    /\ UNCHANGED <<agents, lookup, probe, isoVars,
                   recordVars, submitVars, pc, fanoutVars, sinkVars>>

\* the route's write and its 200 answer
cancel_write ==
    /\ cancelPc = "checked"
    /\ update_consensus_request_status("cancelled", "", Null)
    /\ cancelPc' = "idle"
    /\ cancelResp' = 200
    /\ UNCHANGED <<agents, lookup, probe, isoVars,
                   submitVars, pc, fanoutVars, sinkVars, cancelCaller>>

(***************************************************************************)
(* Status lookups                                                          *)
(***************************************************************************)
\* the record of a lookup: the entry point, the caller, the status the row
\* had ("none": no row), the HTTP status answered and the body of a 200
LookupAnswer(entry, caller, code, body) ==
    [entry |-> entry, caller |-> caller, seen |-> status, code |-> code, body |-> body]

\* request_data.get('tenant_id'): the requests submitted here carry none
RequestTenant == "None"

\* getattr(current_user, 'tenant_id', None) and getattr(current_user,
\* 'is_admin', False) of the users that look a request up
TenantOf(user) == IF user = Stranger THEN "tenant-2" ELSE "None"
IsAdmin(user) == FALSE

\* the ConsensusResult the status route builds from the row
StatusBody ==
    [status |-> status,
     consensus_response |-> Get(result, "consensus_response", Null),
     total_responses |-> Get(result, "total_responses", 0),
     error |-> error]

\* routes.consensus_routes.get_consensus_status: 404 without a row, 403 for
\* a caller of another user and tenant, then result_data.get(...) on the
\* result column, which raises AttributeError (answered as 500) when the
\* column is NULL
get_consensus_status ==
    /\ \E caller \in {Owner, Stranger} :
        lookup' =
            IF status = "none"
            THEN LookupAnswer("route", caller, 404, Null)
            ELSE IF /\ req.user_id # caller
                    /\ RequestTenant # TenantOf(caller)
                    /\ ~IsAdmin(caller)
            THEN LookupAnswer("route", caller, 403, Null)
            ELSE IF result = Null
            THEN LookupAnswer("route", caller, 500, Null)
            ELSE LookupAnswer("route", caller, 200, StatusBody)
    /\ UNCHANGED <<agents, probe, isoVars, recordVars, submitVars, pc, fanoutVars, sinkVars,
                   cancelVars>>

\* AsyncConsensusHandler.get_request_status: the HTTPException(404) raised
\* inside its try is caught by its own "except Exception" and raised again
\* as HTTPException(500)
get_request_status ==
    /\ lookup' =
            IF status = "none"
            THEN LookupAnswer("handler", NoUser, 500, Null)
            ELSE LookupAnswer("handler", NoUser, 200,
                              [status |-> status, has_result |-> result # Null,
                               error |-> error])
    /\ UNCHANGED <<agents, probe, isoVars, recordVars, submitVars, pc, fanoutVars, sinkVars,
                   cancelVars>>

(***************************************************************************)
(* Specification                                                           *)
(***************************************************************************)
\* the steps of the background task of the request
PipelineStep ==
    \/ queue_set_queued
    \/ queue_notify
    \/ trigger_async_consensus_workflow
    \/ queue_except
    \/ delayed_processing
    \/ process_set_processing
    \/ process_notify_started
    \/ orchestrate_llm_consensus
    \/ fanout_start
    \/ fanout_join
    \/ fanout_timeout
    \/ aggregate
    \/ fallback_single_model
    \/ fallback_exhausted
    \/ build_result
    \/ process_except
    \/ finalize_store
    \/ finalize_update
    \/ finalize_callback
    \/ finalize_notify

Next ==
    \/ submit_consensus_request
    \/ submit_return
    \/ queue_set_queued
    \/ queue_notify
    \/ trigger_async_consensus_workflow
    \/ queue_except
    \/ delayed_processing
    \/ process_set_processing
    \/ process_notify_started
    \/ orchestrate_llm_consensus
    \/ fanout_start
    \/ agent_returns
    \/ agent_raises
    \/ fanout_join
    \/ fanout_timeout
    \/ aggregate
    \/ fallback_single_model
    \/ fallback_exhausted
    \/ build_result
    \/ process_except
    \/ finalize_store
    \/ finalize_update
    \/ finalize_callback
    \/ finalize_notify
    \/ cancel_check
    \/ cancel_write

Spec == Init /\ [][Next]_vars

\* the services the lookup specification is run with
LookupAgentConfigs == {{"grok-2"}, {}}

LookupInit == Init /\ agents \in LookupAgentConfigs

\* the lifecycle together with status lookups made at any moment
LookupNext ==
    \/ Next
    \/ get_consensus_status
    \/ get_request_status

LookupSpec == LookupInit /\ [][LookupNext]_vars

(***************************************************************************)
(* The helpers of submit, called on their own                              *)
(***************************************************************************)
lifecycleVars ==
    <<agents, recordVars, submitVars, pc, fanoutVars, sinkVars, cancelVars, lookup>>

\* the most other rows consensus_requests holds when the position is read
MaxRows == 2

\* the rows of consensus_requests, as far as the count can tell them apart
Rows == [priority : Priorities, status : NonTerminal \cup Terminal]
Tables == UNION {[1..n -> Rows] : n \in 0..MaxRows}

\* a priority string that is none of the three tiers
UnknownPriority == "low"

\* the minute of the submission
MaxSubmitMinute == 5
SubmitMinutes == 0..MaxSubmitMinute

probe_queue_position ==
    /\ probe = Null
    /\ \E rows \in Tables, priority \in Priorities, execute \in ExecuteOutcomes :
        probe' = [fn |-> "_get_queue_position", rows |-> rows, priority |-> priority,
                  execute |-> execute,
                  out |-> get_queue_position_over(rows, priority, execute)]
    /\ UNCHANGED <<lifecycleVars, isoVars>>

probe_estimated_completion ==
    /\ probe = Null
    /\ \E now \in SubmitMinutes, priority \in Priorities \cup {UnknownPriority} :
        probe' = [fn |-> "estimated_completion", now |-> now, priority |-> priority,
                  out |-> estimated_completion(now, priority)]
    /\ UNCHANGED <<lifecycleVars, isoVars>>

QueueInit == Init /\ agents = {}

QueueNext ==
    \/ probe_queue_position
    \/ probe_estimated_completion

QueueSpec == QueueInit /\ [][QueueNext]_vars

(***************************************************************************)
(* The consensus strategies, called on their own                           *)
(***************************************************************************)
\* the most responses a strategy is handed
MaxResponses == 3

\* the models that answered
ProbeModels == {"gpt-4", "claude-3-sonnet", "grok-2"}

\* the texts of the answers: one, the same with a word more (twice), with
\* a word less, an unrelated one, and one of more than 100 characters
CallText == <<"Schedule", "a", "Demo", "call">>
CallTodayText == <<"schedule", "a", "demo", "call", "today">>
CallNowText == <<"schedule", "a", "demo", "call", "now">>
DemoText == <<"schedule", "a", "demo">>
PricingText == <<"Send", "pricing", "details">>
LongText ==
    <<"schedule", "a", "demo", "call", "with", "the", "solutions", "engineer", "and",
      "follow", "up", "with", "written", "pricing", "details", "for", "the", "enterprise",
      "plan", "tomorrow">>

\* the confidences of the answers of a model, in hundredths; they are such
\* that Python's float products and sums order the scores as the exact
\* values do (0.9 * 0.2 is 0.18000000000000002 in floats, above 0.6 * 0.3)
ProbeConfidences(model) == IF model = "grok-2" THEN {60, 80} ELSE {60, 90}
ScoredConfidences == {90, 92}

\* what _get_model_response returns for an answer
ProbeResponse(model, text, confidence, reasoning, alternatives, response_time) ==
    [model |-> model, response |-> text, confidence |-> confidence,
     reasoning |-> reasoning, alternatives |-> alternatives,
     response_time |-> response_time, raw_response |-> text]

\* answers that differ in model, text and confidence
PlainResponses ==
    UNION {{ProbeResponse(m, t, c, "", <<>>, 3) :
                t \in {CallText, CallTodayText, CallNowText, DemoText, PricingText},
                c \in ProbeConfidences(m)} : m \in ProbeModels}

\* answers that differ in what _best_of_n_consensus scores
ScoredResponses ==
    {ProbeResponse(m, t, c, reasoning, alternatives, response_time) :
        m \in {"gpt-4", "claude-3-sonnet"},
        t \in {CallText, PricingText, LongText},
        c \in ScoredConfidences,
        reasoning \in {"", "the lead asked for a demo twice"},
        alternatives \in {<<>>, <<"offer a trial">>},
        response_time \in {1, 3}}

\* the empty answer: "" or a text of blanks only, whose split() has no word
EmptyText == <<>>

\* the answers the grouping is given: the plain ones, and empty ones
GroupedResponses ==
    PlainResponses \cup
    UNION {{ProbeResponse(m, EmptyText, c, "", <<>>, 3) : c \in ProbeConfidences(m)} :
             m \in ProbeModels}

\* the non-empty lists of at most n answers of different models, in any order
ResponseLists(from, n) ==
    UNION {{l \in [1..k -> from] : \A i, j \in 1..k : i # j => l[i].model # l[j].model} :
             k \in 1..n}

\* the config of a request: without weights, with equal weights for two
\* models, with unequal weights for three
RequestConfigs ==
    {<<>>,
     [voting_weights |-> ("gpt-4" :> 50 @@ "claude-3-sonnet" :> 50)],
     [voting_weights |-> ("gpt-4" :> 10 @@ "claude-3-sonnet" :> 60 @@ "grok-2" :> 30)]}

probe_weighted_consensus ==
    /\ probe = Null
    /\ \E responses \in ResponseLists(PlainResponses, MaxResponses), config \in RequestConfigs :
        probe' = [fn |-> "_weighted_consensus", responses |-> responses, config |-> config,
                  out |-> weighted_consensus(responses, effective_config(config))]
    /\ UNCHANGED <<lifecycleVars, isoVars>>

probe_group_similar_responses ==
    /\ probe = Null
    /\ \E responses \in ResponseLists(GroupedResponses, MaxResponses),
          threshold \in {MajorityThreshold, UnanimousThreshold} :
        probe' = [fn |-> "_group_similar_responses", responses |-> responses,
                  threshold |-> threshold,
                  out |-> group_similar_responses(responses, threshold)]
    /\ UNCHANGED <<lifecycleVars, isoVars>>

probe_majority_consensus ==
    /\ probe = Null
    /\ \E responses \in ResponseLists(PlainResponses, MaxResponses) :
        probe' = [fn |-> "_majority_consensus", responses |-> responses,
                  out |-> majority_consensus(responses)]
    /\ UNCHANGED <<lifecycleVars, isoVars>>

probe_unanimous_consensus ==
    /\ probe = Null
    /\ \E responses \in ResponseLists(GroupedResponses, MaxResponses) :
        probe' = [fn |-> "_unanimous_consensus", responses |-> responses,
                  out |-> unanimous_consensus(responses)]
    /\ UNCHANGED <<lifecycleVars, isoVars>>

probe_best_of_n_consensus ==
    /\ probe = Null
    /\ \E responses \in ResponseLists(ScoredResponses, MaxResponses) :
        probe' = [fn |-> "_best_of_n_consensus", responses |-> responses,
                  out |-> best_of_n_consensus(responses)]
    /\ UNCHANGED <<lifecycleVars, isoVars>>

\* the task types a request names: two of the default table, one of no table
ProbeTaskTypes == {"qualification", "conversation", "negotiation"}

\* the config of a request for _hierarchical_consensus: without a table, and
\* with a table of its own that lists one task type and two of the models
ExpertiseConfigs ==
    {<<>>,
     [model_expertise |-> [qualification |-> ("gpt-4" :> 60 @@ "grok-2" :> 90)]]}

probe_hierarchical_consensus ==
    /\ probe = Null
    /\ \E responses \in ResponseLists({r \in PlainResponses :
                                            r.response \in {CallText, PricingText}},
                                       MaxResponses),
          task_type \in ProbeTaskTypes, config \in ExpertiseConfigs :
        probe' = [fn |-> "_hierarchical_consensus", responses |-> responses,
                  task_type |-> task_type, config |-> config,
                  out |-> hierarchical_consensus(responses, task_type,
                                                 effective_config(config))]
    /\ UNCHANGED <<lifecycleVars, isoVars>>

\* what an agent can hand back to _get_model_response: the replies of the
\* lifecycle, and envelopes whose self-reported confidence is 1.5, -0.2
\* and (at the edges of the range) 1.0 and 0.0
ProbeReplies ==
    Replies \cup
    {[EnvelopeReply EXCEPT !.fields.confidence = c] : c \in {150, -20, 100, 0}}

probe_get_model_response ==
    /\ probe = Null
    /\ \E model_name \in ProbeModels, reply \in ProbeReplies :
        probe' = [fn |-> "_get_model_response", model_name |-> model_name,
                  reply |-> reply, out |-> GetModelResponse(model_name, reply)]
    /\ UNCHANGED <<lifecycleVars, isoVars>>

\* what a caller passes as strategy to get_consensus_response: None, a
\* member of ConsensusStrategy, or a str. ConsensusStrategy is a plain Enum,
\* so a str equals none of its members.
NoStrategy == [type |-> "NoneType", value |-> "None"]
MemberOf(name) == [type |-> "ConsensusStrategy", value |-> name]
StrOf(name) == [type |-> "str", value |-> name]

\* strategy == ConsensusStrategy.X in _apply_consensus_strategy: the name of
\* the member the argument equals, "" when it equals none
MemberEqualTo(strategy) ==
    IF strategy.type = "ConsensusStrategy" THEN strategy.value ELSE ""

\* get_consensus_response, from the responses _get_all_model_responses
\* returned (not empty) to the result: the config is merged over the
\* default one, a strategy is read from it only when the argument is None
get_consensus_response(responses, task_type, strategy, config) ==
    LET merged == Merge([models |-> DefaultModels,
                         strategy |-> "weighted",
                         voting_weights |-> DefaultVotingWeights,
                         timeout_seconds |-> DefaultTimeoutSeconds], config)
        strategy_str == Get(merged, "strategy", "weighted")
        selected ==
            IF strategy = NoStrategy
            THEN IF strategy_str \in StrategyNames THEN MemberOf(strategy_str)
                 ELSE MemberOf("weighted")
            ELSE strategy
    IN  apply_consensus_strategy(responses, MemberEqualTo(selected), task_type, merged)

\* the strategy arguments and the configs of the callers
StrategyArguments ==
    {NoStrategy} \cup {MemberOf(n) : n \in StrategyNames} \cup {StrOf(n) : n \in StrategyNames}
StrategyConfigs == {<<>>, [strategy |-> "majority"], [strategy |-> "ranked"]}

probe_get_consensus_response ==
    /\ probe = Null
    /\ \E responses \in ResponseLists({r \in PlainResponses :
                                            r.response \in {CallText, PricingText}},
                                       MaxResponses),
          strategy \in StrategyArguments, config \in StrategyConfigs :
        probe' = [fn |-> "get_consensus_response", responses |-> responses,
                  strategy |-> strategy, config |-> config,
                  out |-> get_consensus_response(responses, "qualification", strategy,
                                                 config)]
    /\ UNCHANGED <<lifecycleVars, isoVars>>

\* the first of two invocations of the resolver on one list of responses
probe_apply_consensus_strategy ==
    /\ probe = Null
    /\ \E responses \in ResponseLists({r \in PlainResponses :
                                            r.response \in {CallText, PricingText}},
                                       MaxResponses),
          strategy \in StrategyNames,
          config \in {c \in RequestConfigs : Cardinality(DOMAIN Get(c, "voting_weights", <<>>)) # 2} :
        probe' = [fn |-> "_apply_consensus_strategy", responses |-> responses,
                  strategy |-> strategy, task_type |-> "qualification", config |-> config,
                  out |-> apply_consensus_strategy(responses, strategy, "qualification",
                                                   effective_config(config)),
                  left |-> responses_after(responses, strategy, effective_config(config))]
    /\ UNCHANGED <<lifecycleVars, isoVars>>

\* the second invocation, on the list as the first one left it
probe_apply_consensus_strategy_again ==
    /\ probe # Null
    /\ probe.fn = "_apply_consensus_strategy"
    /\ "again" \notin DOMAIN probe
    /\ probe' = Merge(probe,
                      [again |-> apply_consensus_strategy(probe.left, probe.strategy,
                                                          probe.task_type,
                                                          effective_config(probe.config))])
    /\ UNCHANGED <<lifecycleVars, isoVars>>

StrategyInit == Init /\ agents = {}

StrategyNext ==
    \/ probe_weighted_consensus
    \/ probe_group_similar_responses
    \/ probe_majority_consensus
    \/ probe_unanimous_consensus
    \/ probe_best_of_n_consensus
    \/ probe_hierarchical_consensus
    \/ probe_get_model_response
    \/ probe_apply_consensus_strategy
    \/ probe_apply_consensus_strategy_again
    \/ probe_get_consensus_response

StrategySpec == StrategyInit /\ [][StrategyNext]_vars

(***************************************************************************)
(* Two requests in _get_consensus_with_progress at the same time           *)
(***************************************************************************)
\* mutant: every processor works with one LLMConsensusService
ServiceOfHandler(request_id) == "A"

\* the LLMConsensusService whose method the call for a request overrides:
\* _trigger_async_consensus_workflow constructs an AsyncConsensusProcessor
\* for each request, and each processor constructs its own service
ServiceOf(request_id) == request_id

\* the user_id a request may carry
UsersOf(request_id) == {NoUser, IF request_id = "A" THEN Owner ELSE Stranger}

\* the closure progress_aware_get_responses of the call for a request
ProgressWrapper(request_id) ==
    [fn |-> "progress_aware_get_responses", request_id |-> request_id]

\* the most responses the fan-out returns for a prompt
MaxAnswers == 2

\* the calls that run when a binding of _get_all_model_responses is called:
\* the request ids of the wrappers, outermost first; each wrapper calls the
\* original_get_all_responses of its closure
RECURSIVE WrapperChain(_)
WrapperChain(binding) ==
    IF binding = OriginalMethod THEN <<>>
    ELSE <<binding.request_id>> \o WrapperChain(tasks[binding.request_id].original)

\* the progress notifications the wrappers of a chain send, each with the
\* request_id and user_id of its closure, while the call for a request runs
ProgressSent(during, chain, stage) ==
    {[during |-> during, kind |-> "progress", stage |-> stage, request_id |-> chain[i],
      user_id |-> tasks[chain[i]].user_id] :
        i \in {j \in DOMAIN chain : tasks[chain[j]].user_id # NoUser}}

\* original_get_all_responses is saved and the wrapper installed
install_progress_wrapper ==
    /\ \E r \in RequestIds : \E user \in UsersOf(r) :
        /\ tasks[r].pc = "start"
        /\ tasks' = [tasks EXCEPT ![r] = [pc |-> "installed", user_id |-> user,
                                          original |-> fanout_method[ServiceOf(r)]]]
        /\ fanout_method' = [fanout_method EXCEPT ![ServiceOf(r)] = ProgressWrapper(r)]
    /\ UNCHANGED <<lifecycleVars, probe, emitted, socketVars>>

\* get_consensus_response calls self._get_all_model_responses with the
\* prompt of the request: whatever the attribute is bound to now runs, up
\* to the await of the gather
call_get_all_model_responses ==
    /\ \E r \in RequestIds :
        /\ tasks[r].pc = "installed"
        /\ LET chain == WrapperChain(fanout_method[ServiceOf(r)])
           IN  /\ tasks' = [tasks EXCEPT ![r] = Merge(@, [pc |-> "fanout", chain |-> chain])]
               /\ emitted' = emitted \cup ProgressSent(r, chain, "model_responses")
    /\ UNCHANGED <<lifecycleVars, probe, fanout_method, socketVars>>

\* the gather returns the answers to the prompt it was called with, the
\* wrappers send their second progress update on the way back and the
\* strategy is applied to the answers
fanout_returns ==
    /\ \E r \in RequestIds, answers \in 0..MaxAnswers :
        /\ tasks[r].pc = "fanout"
        /\ tasks' = [tasks EXCEPT ![r] = Merge(@, [pc |-> "responded", answers |-> answers])]
        /\ emitted' =
                emitted
                \cup ProgressSent(r, tasks[r].chain, "consensus_calculation")
                \cup {[during |-> r, kind |-> "responses", request_id |-> r,
                       prompts |-> IF answers = 0 THEN {} ELSE {r}]}
    /\ UNCHANGED <<lifecycleVars, probe, fanout_method, socketVars>>

\* the method is restored from the closure and the result finalized under
\* the request_id process_consensus_request was called with
restore_and_finalize ==
    /\ \E r \in RequestIds :
        /\ tasks[r].pc = "responded"
        /\ fanout_method' = [fanout_method EXCEPT ![ServiceOf(r)] = tasks[r].original]
        /\ tasks' = [tasks EXCEPT ![r] = Merge(@, [pc |-> "finalized"])]
        /\ emitted' =
                emitted
                \cup {[during |-> r, kind |-> k, request_id |-> r, user_id |-> tasks[r].user_id] :
                        k \in {"status", "terminal"}}
    /\ UNCHANGED <<lifecycleVars, probe, socketVars>>

ConcurrentInit == Init /\ agents = {}

ConcurrentNext ==
    \/ install_progress_wrapper
    \/ call_get_all_model_responses
    \/ fanout_returns
    \/ restore_and_finalize

ConcurrentSpec == ConcurrentInit /\ [][ConcurrentNext]_vars

(***************************************************************************)
(* WebSocketManager                                                        *)
(***************************************************************************)
\* list.remove(x): the list without the first x
ListRemove(list, x) ==
    LET k == CHOOSE k \in DOMAIN list : list[k] = x /\ \A j \in 1..(k - 1) : list[j] # x
    IN  [j \in 1..(Len(list) - 1) |-> IF j < k THEN list[j] ELSE list[j + 1]]

\* del d[key]
DictDelete(d, key) == [k \in (DOMAIN d) \ {key} |-> d[k]]

\* the end of send_to_user, after its loop: each connection of disconnected
\* is removed from self.active_connections[user_id] (KeyError without the
\* entry, ValueError without the connection), then the entry is deleted if
\* its list is empty (KeyError without the entry); what was done before an
\* exception stays done
RECURSIVE RemoveDisconnected(_, _, _)
RemoveDisconnected(conns, lists, disconnected) ==
    IF SocketUser \notin DOMAIN conns
    THEN [active_connections |-> conns, connection_lists |-> lists, exc |-> "KeyError"]
    ELSE IF disconnected = <<>>
    THEN [active_connections |-> IF lists[conns[SocketUser]] = <<>>
                                 THEN DictDelete(conns, SocketUser) ELSE conns,
          connection_lists |-> lists, exc |-> ""]
    ELSE IF Head(disconnected) \notin Range(lists[conns[SocketUser]])
    THEN [active_connections |-> conns, connection_lists |-> lists, exc |-> "ValueError"]
    ELSE RemoveDisconnected(conns,
                            [lists EXCEPT ![conns[SocketUser]] =
                                ListRemove(@, Head(disconnected))],
                            Tail(disconnected))

\* send_to_user from the head of its for loop to its next await or its
\* end: the iterator reads the list object it was started on at its index;
\* when it is exhausted the disconnected connections are removed
LoopOn(t, s, conns, lists) ==
    IF s.i <= Len(lists[s.list])
    THEN /\ sending' = [sending EXCEPT ![t] =
                            [s EXCEPT !.pc = "awaiting",
                                      !.connection = lists[s.list][s.i],
                                      !.i = s.i + 1]]
         /\ active_connections' = conns
         /\ connection_lists' = lists
    ELSE LET end == RemoveDisconnected(conns, lists, s.disconnected)
         IN  /\ sending' = [sending EXCEPT ![t] =
                                [s EXCEPT !.pc = IF end.exc = "" THEN "returned" ELSE "raised",
                                          !.exc = end.exc]]
             /\ active_connections' = end.active_connections
             /\ connection_lists' = end.connection_lists

\* send_to_user up to its first await: nothing is done for a user that has
\* no entry
BeginSend(t, conns, lists) ==
    IF SocketUser \notin DOMAIN conns
    THEN /\ sending' = [sending EXCEPT ![t] = [NotSending EXCEPT !.pc = "returned"]]
         /\ active_connections' = conns
         /\ connection_lists' = lists
    ELSE LoopOn(t, [NotSending EXCEPT !.list = conns[SocketUser], !.i = 1], conns, lists)

\* WebSocketManager.connect after websocket.accept(): the websocket is
\* appended to the user's list, created if there is none, and the welcome
\* message is sent with send_to_user
connect(ws) ==
    /\ endpoint[ws] = "new"
    /\ endpoint' = [endpoint EXCEPT ![ws] = "connected"]
    /\ LET created == SocketUser \notin DOMAIN active_connections
           id == IF created THEN Len(connection_lists) + 1
                 ELSE active_connections[SocketUser]
           lists == IF created THEN Append(connection_lists, <<ws>>)
                    ELSE [connection_lists EXCEPT ![id] = Append(@, ws)]
           conns == IF created THEN (SocketUser :> id) ELSE active_connections
       IN  BeginSend(ws, conns, lists)
    /\ UNCHANGED <<lifecycleVars, probe, fanout_method, tasks, emitted>>

\* websocket_endpoint, once connect has returned: receive_text raises
\* WebSocketDisconnect and WebSocketManager.disconnect is called
disconnect(ws) ==
    /\ endpoint[ws] = "connected"
    /\ sending[ws].pc = "returned"
    /\ endpoint' = [endpoint EXCEPT ![ws] = "closed"]
    /\ IF SocketUser \in DOMAIN active_connections
       THEN LET id == active_connections[SocketUser]
                list == IF ws \in Range(connection_lists[id])
                        THEN ListRemove(connection_lists[id], ws)
                        ELSE connection_lists[id]
            IN  /\ connection_lists' = [connection_lists EXCEPT ![id] = list]
                /\ active_connections' =
                        IF list = <<>> THEN DictDelete(active_connections, SocketUser)
                        ELSE active_connections
       ELSE UNCHANGED <<active_connections, connection_lists>>
    /\ UNCHANGED <<lifecycleVars, probe, fanout_method, tasks, emitted, sending>>

\* a caller other than connect calls send_to_user for the user
send_to_user(t) ==
    /\ sending[t].pc = "idle"
    /\ BeginSend(t, active_connections, connection_lists)
    /\ UNCHANGED <<lifecycleVars, probe, fanout_method, tasks, emitted, endpoint>>

\* connection.send_text returns and the loop goes on
send_text_returns(t) ==
    /\ sending[t].pc = "awaiting"
    /\ LoopOn(t, sending[t], active_connections, connection_lists)
    /\ UNCHANGED <<lifecycleVars, probe, fanout_method, tasks, emitted, endpoint>>

\* connection.send_text raises: the connection is noted as disconnected and
\* the loop goes on
send_text_raises(t) ==
    /\ sending[t].pc = "awaiting"
    /\ LoopOn(t, [sending[t] EXCEPT !.disconnected = Append(@, sending[t].connection)],
              active_connections, connection_lists)
    /\ UNCHANGED <<lifecycleVars, probe, fanout_method, tasks, emitted, endpoint>>

SocketInit == Init /\ agents = {}

SocketNext ==
    \/ \E ws \in Sockets : connect(ws)
    \/ \E ws \in Sockets : disconnect(ws)
    \/ \E t \in Senders : send_to_user(t)
    \/ \E t \in SendCalls : send_text_returns(t)
    \/ \E t \in SendCalls : send_text_raises(t)

SocketSpec == SocketInit /\ [][SocketNext]_vars

\* the program while the database may refuse the insert of submit and the
\* writes of the finalization
OutageInit == Init /\ agents \in LookupAgentConfigs

OutageNext ==
    \/ Next
    \/ finalize_store_fails
    \/ finalize_update_fails
    \/ submit_create_fails

OutageSpec == OutageInit /\ [][OutageNext]_vars

(***************************************************************************)
(* Properties                                                              *)
(***************************************************************************)
\* no cancel call was made for the request
NoCancelCall == cancelCaller = ""

\* the models whose gathered call returned a response, in configured order
Survivors ==
    LET Answered(m) == calls[m].st = "ok"
    IN  SelectSeq(DefaultModels, Answered)

Failures == {m \in AgentNames : calls[m].st = "raised"}

\* C1: once the persisted status is completed, failed or cancelled, no step
\* changes the status or the result.
TerminalIsFinal ==
    [][(status \in Terminal) => (status' = status /\ result' = result)]_vars

\* C2: an accepted request that has not reached a terminal status is never
\* stuck: its background task can take another step (the task has no loop,
\* so under fair scheduling this is reaching a terminal status).
NeverStuckBeforeTerminal ==
    submitPc = "returned" => (status \in Terminal \/ ENABLED PipelineStep)

\* C3: once the request is cancelled, the pipeline writes no status, attaches
\* no result and sends no notification.
CancelledIsQuiet ==
    [][(status = "cancelled") =>
        (status' = "cancelled" /\ result' = result /\ notifications' = notifications)]_vars

\* C4: a cancel call of the requester goes on to write exactly when the
\* status it reads is pending, queued or processing, and its write sets the
\* status to cancelled and answers 200; when the status is completed, failed
\* or cancelled it answers 400 and leaves the status and the result unchanged.
CancelContract ==
    [][/\ (cancelPc = "idle" /\ cancelVars' # cancelVars /\ cancelCaller' = req.user_id) =>
            IF status \in NonTerminal
            THEN cancelPc' = "checked" /\ status' = status /\ result' = result
            ELSE cancelPc' = "idle" /\ cancelResp' = 400
                 /\ status' = status /\ result' = result
       /\ (cancelPc = "checked" /\ cancelPc' = "idle") =>
            (cancelResp' = 200 /\ status' = "cancelled" /\ result' = result)
       /\ (cancelResp' = 400 /\ cancelVars' # cancelVars) => status \in Terminal
       /\ (cancelResp' = 200 /\ cancelVars' # cancelVars) => cancelPc = "checked"
      ]_vars

\* C4 witness: the requester cancelled the request while it was pending
CancelledWhilePending ==
    /\ cancelResp = 200
    /\ status = "cancelled"
    /\ pc = "scheduled"

\* C5: a completed or failed status is never overwritten by cancel.
CancelNeverOverwritesFinal ==
    [][(status \in {"completed", "failed"}) => (status' # "cancelled")]_vars

\* the status changes of the pipeline the lifecycle names
LifecycleEdges ==
    {<<"none", "pending">>, <<"pending", "queued">>, <<"queued", "processing">>,
     <<"processing", "completed">>, <<"processing", "failed">>}

\* C6 as stated: apart from the writes of cancel, the status goes pending,
\* queued, processing, then completed or failed, skipping and revisiting none.
LifecycleOrder ==
    [][(status' # status /\ "cancelled" \notin {status, status'}) =>
        <<status, status'>> \in LifecycleEdges]_vars

\* C6 as amended: the same, except that a request whose workflow could not
\* be started goes from queued to failed.
LifecycleOrderOrQueueFailure ==
    [][(status' # status /\ "cancelled" \notin {status, status'}) =>
        <<status, status'>> \in LifecycleEdges \cup {<<"queued", "failed">>}]_vars

\* C6 witness: a request nobody cancelled went through the whole pipeline
CompletedUncancelled ==
    /\ pc = "done"
    /\ status = "completed"
    /\ NoCancelCall

\* C7: until submit has returned, the background task has not started, no
\* model call is running or done and nothing was sent; the row is pending
\* when submit returns, as the acknowledgment says; model calls run only in
\* the fan-out or the fallback of the background task.
AckBeforeModelCalls ==
    /\ submitPc # "returned" =>
        /\ pc \in {"unscheduled", "scheduled"}
        /\ calls = NoCalls
        /\ model_responses = <<>>
        /\ consensus = Null
        /\ notifications = <<>>
    /\ submitPc = "created" => status = "pending"
    /\ submitPc = "returned" => ack.status = "pending"
    /\ calls # NoCalls => pc \notin {"unscheduled", "scheduled"}

\* C7 witness: a model call is running after the acknowledgment
ModelCallAfterAck ==
    /\ submitPc = "returned"
    /\ \E m \in AgentNames : calls[m] = CallPending

TimeoutKeepsSucceeded ==
    [][(pc = "fanout" /\ pc' = "aggregate" /\ Survivors # <<>>) =>
        MapSeq(model_responses', ModelOf) = Survivors]_vars

\* C10: a call whose agent returned a reply is never counted as failed, and
\* the response synthesized for a reply that is no envelope carries the raw
\* text and the default confidence.
EveryReplyYieldsResponse ==
    \A m \in AgentNames :
        /\ calls[m].st = "raised" => calls[m].exc = "AgentError"
        /\ (calls[m].st = "ok"
            /\ calls[m].value.reasoning = "Response not in structured format") =>
                /\ calls[m].value.response = calls[m].value.raw_response
                /\ calls[m].value.confidence = DefaultConfidence

\* C11: the fallback calls the available adapters in the order of the
\* fallback list and returns the answer of the first that succeeds; the
\* degraded result is produced only when every available adapter has been
\* called by the fallback and has failed.
FallbackTriesEveryAdapter ==
    pc = "build" =>
        /\ consensus.strategy = "fallback_single" =>
                /\ fbTried # <<>>
                /\ consensus.fallback_model = fbTried[Len(fbTried)]
        /\ consensus.strategy = "error_fallback" => agents \subseteq Range(fbTried)

\* C12: the result built and persisted when every adapter failed in the
\* fan-out and in the fallback, or none was available, has total_responses 0,
\* confidence 0.1 and a non-empty error or fallback_reason.
DegradedResultNamesItsReason ==
    Get(final, "strategy", "") = "error_fallback" =>
        /\ final.total_responses = 0
        /\ final.consensus_confidence = <<DegradedConfidence, 1>>
        /\ \/ Get(final, "error", "") # ""
           \/ Get(final, "fallback_reason", "") # ""

\* the terminal notifications sent so far
TerminalNotifications ==
    LET IsTerminal(n) == n.type \in {"consensus_completed", "consensus_failed"}
    IN  SelectSeq(notifications, IsTerminal)

\* the except branch of process_consensus_request was taken
ExceptionCaught == Get(final, "status", "") = "failed"

TerminalRequestIsQueryable ==
    (/\ lookup # Null
     /\ lookup.entry = "route"
     /\ lookup.seen \in {"completed", "failed"}
     /\ lookup.caller = req.user_id) =>
        /\ lookup.code = 200
        /\ lookup.seen = "completed" => lookup.body.consensus_response # Null
        /\ lookup.seen = "failed" => lookup.body.error # ""

\* C16: a lookup of a request that has no record is answered 404 by both
\* entry points.
UnknownRequestIsNotFound ==
    (lookup # Null /\ lookup.seen = "none") => lookup.code = 404

\* C15: a request record exists, or a background task is scheduled, only
\* for a submission whose strategy is one of the five known strategies.
UnknownStrategyIsRejected ==
    (status # "none" \/ pc # "unscheduled") => req.strategy \in StrategyNames

\* at each position where the background task sends a notification, the
\* step that sends it can be taken (of aggregate, the sending part: what
\* follows it there is the pure strategy computation)
NotifyingStepEnabled ==
    /\ pc = "queue_notify" => ENABLED queue_notify
    /\ pc = "queue_except" => ENABLED queue_except
    /\ pc = "process_notify" => ENABLED process_notify_started
    /\ pc = "orchestrate" => ENABLED orchestrate_llm_consensus
    /\ pc = "fanout_start" => ENABLED fanout_start
    /\ pc = "aggregate" =>
            ENABLED NotifyUser([type |-> "consensus_progress", stage |-> "consensus_calculation"])
    /\ pc = "finalize_notify" => ENABLED finalize_notify

LabelOf(n) == IF n.type = "consensus_progress" THEN n.stage ELSE n.type

NotificationLabels == MapSeq(notifications, LabelOf)

IsPrefix(s, t) == Len(s) <= Len(t) /\ SubSeq(t, 1, Len(s)) = s

FullRunLabels(terminal) ==
    <<"consensus_queued", "consensus_started", "llm_calls", "model_responses",
      "consensus_calculation", terminal>>
TriggerFailureLabels == <<"consensus_queued", "consensus_failed">>
UnknownStrategyLabels == <<"consensus_queued", "consensus_started", "consensus_failed">>
RunLabels ==
    {FullRunLabels("consensus_completed"), FullRunLabels("consensus_failed"),
     TriggerFailureLabels, UnknownStrategyLabels}

CallbackFailureChangesNothing ==
    callback_outcome \in {"failed", "timed_out"} =>
        /\ pc \in {"finalize_notify", "done"}
        /\ pc = "finalize_notify" => (ENABLED finalize_notify /\ TerminalNotifications = <<>>)
        /\ pc = "done" => Len(TerminalNotifications) = 1
        /\ NoCancelCall =>
                /\ status = final.status
                /\ status \in {"completed", "failed"}
                /\ result = final
                /\ error = ""

\* C20 witness: the callback of a completed request timed out and the
\* completed notification was sent after it
NotifiedAfterCallbackTimeout ==
    /\ pc = "done"
    /\ callback_outcome = "timed_out"
    /\ NoCancelCall
    /\ status = "completed"
    /\ TerminalNotifications = <<[type |-> "consensus_completed"]>>

\* C19: the callback is attempted at most once, and when it has been
\* attempted the result of the request is persisted and (nobody having
\* cancelled) so is its terminal status.
CallbackAfterPersistence ==
    /\ callbacks <= 1
    /\ callbacks = 1 =>
            /\ pc \in {"finalize_notify", "done"}
            /\ result = final
            /\ NoCancelCall => (status = final.status /\ status \in {"completed", "failed"})

\* the requests of a table that wait: pending, queued or processing
WaitingRows(rows) == {i \in DOMAIN rows : rows[i].status \in {"pending", "queued", "processing"}}

ProbeOf(fn) == probe # Null /\ probe.fn = fn

\* C22: the queue position is a number, at least 1, whatever the table and
\* however the count query ends; it is 1 when the query raises or gives no
\* count and when no request waits.
QueuePositionAtLeastOne ==
    ProbeOf("_get_queue_position") =>
        /\ probe.out \in Nat
        /\ probe.out >= 1
        /\ (probe.execute # "ok" \/ WaitingRows(probe.rows) = {}) => probe.out = 1

\* C22 witness: the count query raised while requests were waiting, and the
\* position is 1
PositionWhenCountRaises ==
    /\ ProbeOf("_get_queue_position")
    /\ probe.execute = "raises"
    /\ Cardinality(WaitingRows(probe.rows)) >= 2
    /\ probe.out = 1

\* urgent is above high, high above normal
PriorityRank(priority) ==
    CASE priority = "urgent" -> 3
      [] priority = "high" -> 2
      [] OTHER -> 1

WaitingAtOrAbove(rows, priority) ==
    {i \in WaitingRows(rows) : PriorityRank(rows[i].priority) >= PriorityRank(priority)}

\* C23: when the count can be computed and at least one request of equal or
\* higher priority waits, the position for priority p is the number of
\* waiting requests of priority equal to or higher than p.
QueuePositionCountsEqualOrHigher ==
    (/\ ProbeOf("_get_queue_position")
     /\ probe.execute = "ok"
     /\ WaitingAtOrAbove(probe.rows, probe.priority) # {}) =>
        probe.out = Cardinality(WaitingAtOrAbove(probe.rows, probe.priority))

\* C24: the estimated completion is the submission time plus 1 minute for
\* urgent, 2 for high, 3 for normal, and 3 for any other priority.
EstimatedCompletionByTier ==
    ProbeOf("estimated_completion") =>
        /\ probe.priority = "urgent" => probe.out - probe.now = 1
        /\ probe.priority = "high" => probe.out - probe.now = 2
        /\ probe.priority = "normal" => probe.out - probe.now = 3
        /\ probe.priority \notin {"urgent", "high", "normal"} => probe.out - probe.now = 3

\* C24 witness: a submission of a priority outside the tiers got 3 minutes
UnknownPriorityGetsNormal ==
    /\ ProbeOf("estimated_completion")
    /\ probe.priority = UnknownPriority
    /\ probe.now > 0
    /\ probe.out = probe.now + 3

\* the first index at which a sequence of numbers has its largest value
FirstLargest(values) ==
    CHOOSE i \in DOMAIN values :
        /\ \A j \in DOMAIN values : values[j] <= values[i]
        /\ \A j \in DOMAIN values : j < i => values[j] < values[i]

\* the weight the weighted strategy gives the model of a probed response:
\* the one the request's config supplies, else the one of the default table
\* (0.25 for a model that the table in use does not name)
ProbeWeights ==
    IF "voting_weights" \in DOMAIN probe.config THEN probe.config.voting_weights
    ELSE DefaultVotingWeights
ProbeWeight(i) ==
    LET model == probe.responses[i].model
    IN  IF model \in DOMAIN ProbeWeights THEN ProbeWeights[model] ELSE 25
ProbeConfidence(i) == probe.responses[i].confidence

\* the example of the specification: 0.9 and 0.6 at weights 0.5 and 0.5
IsWeightedExample ==
    /\ ProbeOf("_weighted_consensus")
    /\ probe.responses = <<ProbeResponse("gpt-4", CallText, 90, "", <<>>, 3),
                           ProbeResponse("claude-3-sonnet", PricingText, 60, "", <<>>, 3)>>
    /\ probe.config = [voting_weights |-> ("gpt-4" :> 50 @@ "claude-3-sonnet" :> 50)]

\* C25: the weighted strategy outputs the text of the first response with
\* the highest confidence x weight, and its confidence is
\* sum(confidence x weight) / sum(weight) over all responses; for 0.9 and
\* 0.6 at equal weights that is the 0.9 response and 0.75.
WeightedPicksTopAndAverages ==
    ProbeOf("_weighted_consensus") =>
        LET n == Len(probe.responses)
            scores == [i \in 1..n |-> ProbeConfidence(i) * ProbeWeight(i)]
            weights == [i \in 1..n |-> ProbeWeight(i)]
            winner == probe.responses[FirstLargest(scores)]
            confidence == probe.out.consensus_confidence
        IN  /\ probe.out.consensus_response = winner.response
            /\ probe.out.top_model = winner.model
            /\ confidence[2] > 0
            /\ confidence[1] * SumSeq(weights) = SumSeq(scores) * confidence[2]
            /\ IsWeightedExample =>
                    /\ probe.out.consensus_response = CallText
                    /\ confidence[1] = 75 * confidence[2]

\* C25 witness: the example of the specification, whose confidence is not
\* that of the winner
WeightedExampleAnswered ==
    /\ IsWeightedExample
    /\ probe.out.top_model = "gpt-4"
    /\ probe.out.consensus_confidence[1] # 90 * probe.out.consensus_confidence[2]

\* C26: without weights in the request's config every model weighs the
\* same: the weighted strategy outputs the text of the first response of
\* highest confidence and its confidence is the plain mean of the
\* confidences.
WeightedDefaultsToEqualWeights ==
    (ProbeOf("_weighted_consensus") /\ "voting_weights" \notin DOMAIN probe.config) =>
        LET n == Len(probe.responses)
            confidences == [i \in 1..n |-> ProbeConfidence(i)]
            confidence == probe.out.consensus_confidence
        IN  /\ probe.out.consensus_response = probe.responses[FirstLargest(confidences)].response
            /\ confidence[1] * n = SumSeq(confidences) * confidence[2]

\* Jaccard similarity of the lower-cased word sets of two texts is at least
\* the threshold (in hundredths)
JaccardAtLeast(text1, text2, threshold) ==
    LET a == WordSet(text1)
        b == WordSet(text2)
    IN  100 * Cardinality(a \cap b) >= threshold * Cardinality(a \cup b)

\* C27: the similarity groups are a partition of the responses, and every
\* two responses of a group have Jaccard similarity of at least the
\* threshold, 0.7 or 0.8.
GroupsArePairwiseSimilar ==
    ProbeOf("_group_similar_responses") =>
        LET groups == probe.out
            Places(r) == {<<g, k>> \in (DOMAIN groups) \X (1..MaxResponses) :
                            k \in DOMAIN groups[g] /\ groups[g][k] = r}
        IN  /\ \A i \in DOMAIN probe.responses : Cardinality(Places(probe.responses[i])) = 1
            /\ \A g \in DOMAIN groups :
                    /\ groups[g] # <<>>
                    /\ \A k, l \in DOMAIN groups[g] :
                            JaccardAtLeast(groups[g][k].response, groups[g][l].response,
                                           probe.threshold)

\* the mean of numbers equals a quotient <<num, den>>
IsMeanOf(quotient, numbers) ==
    /\ quotient[2] > 0
    /\ quotient[1] * Len(numbers) = SumSeq(numbers) * quotient[2]

\* C28: the majority strategy takes the largest similarity group, the
\* first-formed of the largest; it outputs the text of the first member of
\* highest confidence, the mean confidence of the group, and counts all
\* input responses in total_responses.
MajorityPicksLargestGroup ==
    ProbeOf("_majority_consensus") =>
        LET groups == group_similar_responses(probe.responses, 70)
            sizes == [g \in DOMAIN groups |-> Len(groups[g])]
            winning == groups[FirstLargest(sizes)]
            confidences == [k \in DOMAIN winning |-> winning[k].confidence]
        IN  /\ probe.out.consensus_response = winning[FirstLargest(confidences)].response
            /\ IsMeanOf(probe.out.consensus_confidence, confidences)
            /\ probe.out.consensus_size = Len(winning)
            /\ probe.out.total_responses = Len(probe.responses)

\* C28 witness: three responses, each a group of its own; the first wins
\* although a later one has the higher confidence
FirstGroupWinsTie ==
    /\ ProbeOf("_majority_consensus")
    /\ Len(probe.responses) = 3
    /\ probe.out.metadata.response_groups = 3
    /\ probe.out.consensus_response = probe.responses[1].response
    /\ probe.responses[1].confidence < probe.responses[3].confidence
    /\ probe.out.total_responses = 3

\* C29: the unanimous strategy, when grouping at 0.8 gives one group,
\* answers unanimous = true with the text of the first response of highest
\* confidence and the mean confidence; otherwise unanimous = false, the
\* fixed disagreement message and confidence 0.3, the text of no model.
UnanimousOrDisagreement ==
    ProbeOf("_unanimous_consensus") =>
        LET groups == group_similar_responses(probe.responses, 80)
            n == Len(probe.responses)
            confidences == [i \in 1..n |-> ProbeConfidence(i)]
        IN  IF Len(groups) = 1
            THEN /\ probe.out.unanimous = TRUE
                 /\ probe.out.consensus_response =
                        probe.responses[FirstLargest(confidences)].response
                 /\ IsMeanOf(probe.out.consensus_confidence, confidences)
            ELSE /\ probe.out.unanimous = FALSE
                 /\ probe.out.consensus_response = DisagreementMessage
                 /\ probe.out.consensus_confidence[1] = 30 * probe.out.consensus_confidence[2]
                 /\ \A i \in 1..n : probe.out.consensus_response # probe.responses[i].response

\* C29 witness: two responses whose similarity is 0.75, one group at 0.7
\* but two at 0.8, got the disagreement message
DisagreementBelowThreshold ==
    /\ ProbeOf("_unanimous_consensus")
    /\ Len(probe.responses) = 2
    /\ probe.responses[1].response = CallText
    /\ probe.responses[2].response = DemoText
    /\ probe.out.unanimous = FALSE
    /\ probe.out.consensus_response = DisagreementMessage

\* the score of C30, in thousandths
CompositeScore(r) ==
    10 * r.confidence
    + (IF CharLen(r.response) < 100 THEN CharLen(r.response) ELSE 100)
    + (IF Len(r.reasoning) > 20 THEN 50 ELSE 0)
    + (IF r.alternatives # <<>> THEN 30 ELSE 0)
    - (IF r.response_time < 2 THEN 20 ELSE 0)

\* C30: best-of-N outputs, verbatim, the first response of the highest
\* composite score, and reports that response's own confidence.
BestOfNPicksTopScore ==
    ProbeOf("_best_of_n_consensus") =>
        LET n == Len(probe.responses)
            scores == [i \in 1..n |-> CompositeScore(probe.responses[i])]
            winner == probe.responses[FirstLargest(scores)]
        IN  /\ probe.out.consensus_response = winner.response
            /\ probe.out.winning_model = winner.model
            /\ probe.out.consensus_confidence = <<winner.confidence, 1>>

\* C30 witness: the response of lower confidence won on its composite
\* score and the result carries its confidence
LowerConfidenceWinsOnScore ==
    /\ ProbeOf("_best_of_n_consensus")
    /\ Len(probe.responses) = 2
    /\ probe.out.winning_model = probe.responses[2].model
    /\ probe.responses[2].confidence < probe.responses[1].confidence
    /\ probe.out.consensus_confidence = <<probe.responses[2].confidence, 1>>

\* C21: whatever the call for a request sends or returns carries the id
\* (and the user) of that request and the answers to its prompt only, and
\* the service of a request is never bound to the wrapper of another, in
\* every interleaving of the two calls.
RequestsDoNotObserveEachOther ==
    /\ \A e \in emitted :
            /\ e.request_id = e.during
            /\ "user_id" \in DOMAIN e => e.user_id = tasks[e.during].user_id
            /\ "prompts" \in DOMAIN e => e.prompts \subseteq {e.during}
    /\ \A r \in RequestIds :
            fanout_method[ServiceOf(r)] \in {OriginalMethod, ProgressWrapper(r)}

\* C21 witness: both calls are inside the fan-out with their wrappers
\* installed, and both have sent a progress notification
BothInsideFanOut ==
    /\ \A r \in RequestIds :
            /\ tasks[r].pc = "fanout"
            /\ fanout_method[ServiceOf(r)] = ProgressWrapper(r)
            /\ \E e \in emitted : e.kind = "progress" /\ e.during = r

\* the expertise coefficient of C31, in hundredths: the one the table in use
\* (the config's, else the default one) gives the model for the task type,
\* 0.8 when the table lists no such task type or no such model
ProbeExpertise(i) ==
    LET table == IF "model_expertise" \in DOMAIN probe.config
                 THEN probe.config.model_expertise ELSE DefaultModelExpertise
        model == probe.responses[i].model
    IN  IF probe.task_type \in DOMAIN table /\ model \in DOMAIN table[probe.task_type]
        THEN table[probe.task_type][model]
        ELSE 80

\* C31: the hierarchical strategy scores each response by its confidence
\* times the expertise coefficient of its model for the task type, outputs
\* the text of the first response of the highest product, and reports that
\* response's raw confidence.
HierarchicalPicksTopProduct ==
    ProbeOf("_hierarchical_consensus") =>
        LET n == Len(probe.responses)
            products == [i \in 1..n |-> probe.responses[i].confidence * ProbeExpertise(i)]
            winner == probe.responses[FirstLargest(products)]
        IN  /\ probe.out.consensus_response = winner.response
            /\ probe.out.selected_model = winner.model
            /\ probe.out.consensus_confidence = <<winner.confidence, 1>>
            /\ probe.out.metadata.hierarchical_scores =
                   [i \in 1..n |-> <<probe.responses[i].model, products[i]>>]

\* C31 witness: under the table of the request's config the response of
\* lower confidence won on its product (0.8 * 0.9 above 0.9 * 0.6) and the
\* result carries its raw confidence
LowerConfidenceWinsOnExpertise ==
    /\ ProbeOf("_hierarchical_consensus")
    /\ "model_expertise" \in DOMAIN probe.config
    /\ probe.task_type = "qualification"
    /\ Len(probe.responses) = 2
    /\ probe.responses[1].model = "gpt-4"
    /\ probe.responses[1].confidence = 90
    /\ probe.responses[2].model = "grok-2"
    /\ probe.responses[2].confidence = 80
    /\ probe.out.selected_model = "grok-2"
    /\ probe.out.consensus_confidence = <<80, 1>>

\* the five strategies, by the name of the method
StrategyMethods ==
    {"_weighted_consensus", "_majority_consensus", "_unanimous_consensus",
     "_best_of_n_consensus", "_hierarchical_consensus"}

\* C32: the result of each of the five strategies carries in its metadata
\* the full list of the input responses, in input order.
MetadataKeepsAllResponses ==
    (probe # Null /\ probe.fn \in StrategyMethods) =>
        /\ "all_responses" \in DOMAIN probe.out.metadata
        /\ probe.out.metadata.all_responses = probe.responses

\* C32 witness: the majority strategy took a group of two of three
\* responses, the loser being the first of the input, and the metadata
\* has all three
LoserStaysInMetadata ==
    /\ ProbeOf("_majority_consensus")
    /\ Len(probe.responses) = 3
    /\ probe.out.consensus_size = 2
    /\ probe.responses[1].model \notin Range(probe.out.participating_models)
    /\ Len(probe.out.metadata.all_responses) = 3
    /\ probe.out.metadata.all_responses[1] = probe.responses[1]

\* C33: every response _get_model_response returns has a confidence within
\* [0.0, 1.0] (in hundredths: 0..100), whatever confidence the model's
\* envelope reports.
ModelConfidenceWithinRange ==
    (ProbeOf("_get_model_response") /\ ~probe.out.raised) =>
        /\ probe.out.value.confidence >= 0
        /\ probe.out.value.confidence <= 100

StatusQuerySucceedsInEveryStatus ==
    (/\ lookup # Null
     /\ lookup.entry = "route"
     /\ lookup.seen # "none"
     /\ lookup.code # 403) =>
        /\ lookup.code = 200
        /\ lookup.body.status = lookup.seen
        /\ lookup.seen \in {"pending", "queued"} =>
                /\ lookup.body.consensus_response = Null
                /\ lookup.body.total_responses = 0

\* C36: when responses were collected, the result of get_consensus_response
\* names the strategy the caller passed, as a member of ConsensusStrategy
\* or as its string name; without a strategy argument it names
\* config['strategy'], or weighted when that is no strategy name.
SelectedStrategyIsApplied ==
    ProbeOf("get_consensus_response") =>
        LET configured == Get(probe.config, "strategy", "weighted")
        IN  probe.out.strategy =
                IF probe.strategy.type # "NoneType" THEN probe.strategy.value
                ELSE IF configured \in StrategyNames THEN configured
                ELSE "weighted"

\* C37: a record that has a result attached has status completed or
\* failed, in every state of every interleaving of the background task and
\* the cancel route.
ResultOnlyOnFinishedRecord ==
    result # Null => status \in {"completed", "failed"}

\* C38: the grouping puts two responses of identical text in one group,
\* whatever the text (the empty one included), and the unanimous strategy
\* answers unanimous = true for responses that all have the same text.
IdenticalTextsShareAGroup ==
    /\ ProbeOf("_group_similar_responses") =>
            \A i, j \in DOMAIN probe.responses :
                probe.responses[i].response = probe.responses[j].response =>
                    \E g \in DOMAIN probe.out :
                        {probe.responses[i], probe.responses[j]} \subseteq Range(probe.out[g])
    /\ ProbeOf("_unanimous_consensus") =>
            ((\A i, j \in DOMAIN probe.responses :
                    probe.responses[i].response = probe.responses[j].response)
                => probe.out.unanimous = TRUE)

\* C39: when the insert of the new request fails, submit fails with an
\* error (no acknowledgment), no record exists for the request, and no
\* background task is scheduled or ever runs for it.
FailedSubmitLeavesNothing ==
    submitPc = "raised" =>
        /\ ack = Null
        /\ status = "none"
        /\ result = Null
        /\ pc = "unscheduled"
        /\ notifications = <<>>
        /\ ~ENABLED PipelineStep

\* C39 witness: the submit of a request with a callback failed on the
\* insert; there is no record and no task
FailedSubmitOfRequest ==
    /\ submitPc = "raised"
    /\ req # NoRequest
    /\ req.has_callback
    /\ status = "none"
    /\ pc = "unscheduled"

\* C40: no send_to_user call raises, in any interleaving with connect,
\* disconnect and the other send_to_user calls for the user.
SendToUserNeverRaises ==
    \A t \in SendCalls : sending[t].pc # "raised"

====
